---- MODULE Spec2Model ----
(***************************************************************************)
(* A model of the perps keepers.                                            *)
(* DelayedOrdersKeeper (src/src/keepers/delayedOrders.ts, second copy,      *)
(* lines 211-447): the in-memory index of delayed orders, updateIndex,      *)
(* execute and the per-account executeOrder task, every await a step.       *)
(* LiquidationKeeper (src/unnamed/part_000, lines 76-511): the index of     *)
(* positions, updateIndex, liquidationGroups, liquidatePosition and the     *)
(* Multicall3 execute.                                                      *)
(***************************************************************************)
EXTENDS Integers, Sequences, FiniteSets, TLC

(***************************************************************************)
(* Bounds of the exploration                                                *)
(***************************************************************************)
\* number of events one updateIndex call may carry
MaxBatchLen == 2
\* the keeper's failure budget (constructor parameter maxExecAttempts)
maxExecAttempts == 1
\* number of signers in the pool (SIGNER_POOL_SIZE)
PoolSize == 1

\* the largest nonce a signing key reaches where nonces are followed
MaxNonce == 2
\* the longest list of positions liquidationGroups is handed
MaxGroupLen == 4
\* the longest event sequence replayed
MaxReplayLen == 3
\* the longest event history before a snapshot, and after it
MaxHistoryLen == 2

Accounts == {"0xA", "0xB", "0xC"}
\* the accounts the events fed to updateIndex speak of
EventAccounts == {"0xA", "0xB"}
\* round ids and timestamps an order can carry, and what the chain can report
RoundIds == {1, 2}
Times == {1, 2}
RoundReads == {0, 1, 2}
TimeReads == {0, 1}
BlockNumbers == {7, 8}
\* what evt.getBlock() can report as the block's timestamp
BlockTimes == {2}
\* what estimateGas and getGasPrice can report
GasEstimates == {10}
GasPrices == {3}
Signers == 1..PoolSize

(***************************************************************************)
(* Events (ethers Event: event, args, blockNumber)                          *)
(***************************************************************************)
EventKinds == {"DelayedOrderSubmitted", "DelayedOrderRemoved"}

\* args.intentionTime is a BigNumber or undefined; NoTime stands for undefined
NoTime == -1

\* an order is submitted with (targetRoundId, executableAtTime) = (1, 2) or (2, 1)
SubmittedEvents ==
  {e \in [event : {"DelayedOrderSubmitted"}, hasArgs : {TRUE}, isOffchain : BOOLEAN,
          account : EventAccounts, targetRoundId : RoundIds, executableAtTime : Times,
          intentionTime : {NoTime, 1}, blockNumber : BlockNumbers] :
     e.targetRoundId # e.executableAtTime}

\* DelayedOrderRemoved, and PositionModified as an event the switch of updateIndex
\* has no case for
OtherEvents ==
  [event : {"DelayedOrderRemoved", "PositionModified"}, hasArgs : BOOLEAN,
   isOffchain : BOOLEAN, account : EventAccounts, targetRoundId : {0},
   executableAtTime : {0}, intentionTime : {NoTime}, blockNumber : BlockNumbers]

Events == SubmittedEvents \cup OtherEvents

(***************************************************************************)
(* The index: Record<string, DelayedOrder>, kept in insertion order (the    *)
(* order Object.values walks it in)                                         *)
(***************************************************************************)
NoOrder == [account |-> "", targetRoundId |-> 0, executableAtTime |-> 0,
            intentionTime |-> 0, executionFailures |-> 0]

\* account in this.orders
HasOrder(ords, a) == \E i \in 1..Len(ords) : ords[i].account = a

\* this.orders[account]
GetOrder(ords, a) ==
  IF HasOrder(ords, a)
  THEN ords[CHOOSE i \in 1..Len(ords) : ords[i].account = a]
  ELSE NoOrder

\* this.orders[account] = o : an existing key keeps its position
PutOrder(ords, o) ==
  IF HasOrder(ords, o.account)
  THEN [i \in 1..Len(ords) |-> IF ords[i].account = o.account THEN o ELSE ords[i]]
  ELSE Append(ords, o)

\* delete this.orders[account]
DeleteOrder(ords, a) == SelectSeq(ords, LAMBDA o : o.account # a)

IndexKeys(ords) == {ords[i].account : i \in 1..Len(ords)}

(***************************************************************************)
(* State                                                                    *)
(***************************************************************************)
VARIABLES
  orders,      \* this.orders, in insertion order
  uiPc,        \* updateIndex: "idle" or "indexing"
  uiLeft,      \* events of the current batch not yet processed
  blockCache,  \* updateIndex's blockCache: blockNumber -> timestamp or NoBlock
  exPc,        \* execute: "idle", "reading", "batch", "delay"
  snapshot,    \* execute's const orders = Object.values(this.orders)
  reads,       \* execute's currentRoundId and block.timestamp
  batches,     \* chunk(executableOrders, MAX_BATCH_SIZE), the batches still to run
  task,        \* per account: the executeOrder task of the current batch
  pool,        \* idle signers of the signer pool
  waiters,     \* tasks waiting in withSigner, in arrival order
  metrics,     \* metric counts emitted since the current execute began
  seen,        \* history: per account, the last on-chain order event indexed
  execDeleted, \* history: executeOrder deleted the entry after that event
  failedTicks, \* history: per account, the failed attempts on its current entry
  nonces,      \* signer pool: per signer, the nonce remembered, the transactions
               \* the chain accepted, and the nonce the current lease carries
  positions,   \* LiquidationKeeper: this.positions, in insertion order
  blockTipTimestamp, \* LiquidationKeeper: this.blockTipTimestamp
  assetPrice,  \* LiquidationKeeper: this.assetPrice
  piLeft,      \* LiquidationKeeper.updateIndex: events not yet processed
  lq,          \* LiquidationKeeper.execute: its position and locals
  lp,          \* LiquidationKeeper.liquidatePosition: its position and locals
  posSeen,     \* history: per account, the last position event indexed
  refreshed,   \* history: per account, the liquidationPrice reads on its entry
  args,        \* the arguments drawn for the calls a replay feeds to a keeper
  returned     \* history: what those calls returned or left behind

\* the variables of the LiquidationKeeper
lvars == <<positions, blockTipTimestamp, assetPrice, piLeft, lq, lp, posSeen,
           refreshed>>

vars == <<orders, uiPc, uiLeft, blockCache, exPc, snapshot, reads, batches,
          task, pool, waiters, metrics, seen, execDeleted, failedTicks, nonces,
          positions, blockTipTimestamp, assetPrice, piLeft, lq, lp, posSeen,
          refreshed, args, returned>>

\* the variables of a replay
rvars == <<args, returned>>

NoBlock == 0
NoReads == [currentRoundId |-> -1, timestamp |-> -1]
NoMetrics == [DelayedOrderExecuted |-> 0, DelayedOrderAlreadyExecuted |-> 0,
              KeeperError |-> 0, PositionLiquidated |-> 0]

\* a transaction sent without the gasLimit or gasPrice override
NoOverride == 0
\* a transaction: the signer it is sent from and the overrides it is sent with
NoTx == [from |-> 0, gasLimit |-> NoOverride, gasPrice |-> NoOverride]
\* a task: its position (pc), the order object it read at its start, whether that
\* object is still the one in the index (aliased), the signer it holds; and, as
\* history, what delayedOrders returned (found), whether updateIndex rewrote the
\* entry under it (raced), how it ended (outcome), and the transactions it
\* submitted (sent) and saw confirmed (confirmed); gasEstimation and tx are the
\* task's locals of those names, held while the transaction is prepared and awaited
NoTask == [pc |-> "idle", order |-> NoOrder, aliased |-> FALSE, signer |-> 0,
           found |-> "unread", raced |-> FALSE, outcome |-> "none",
           sent |-> 0, confirmed |-> 0, gasEstimation |-> 0, tx |-> NoTx]

InitDelayed ==
  /\ orders = <<>>
  /\ uiPc = "idle"
  /\ uiLeft = 0
  /\ blockCache = [b \in BlockNumbers |-> NoBlock]
  /\ exPc = "idle"
  /\ snapshot = <<>>
  /\ reads = NoReads
  /\ batches = <<>>
  /\ task = [a \in Accounts |-> NoTask]
  /\ pool = Signers
  /\ waiters = <<>>
  /\ metrics = NoMetrics
  /\ seen = [a \in Accounts |-> "none"]
  /\ execDeleted = [a \in Accounts |-> FALSE]
  /\ failedTicks = [a \in Accounts |-> 0]

(***************************************************************************)
(* Metrics.count(name, increment)                                           *)
(***************************************************************************)
\* metricName.dec() when !increment, then metricName.inc()
Count(m, name, increment) ==
  [m EXCEPT ![name] = (IF increment THEN @ ELSE @ - 1) + 1]

(***************************************************************************)
(* updateIndex                                                              *)
(***************************************************************************)
\* Skipped without the test of args.isOffchain
SkippedArgsOnly(evt) == ~evt.hasArgs

\* if (!args || args.isOffchain) continue
Skipped(evt) == ~evt.hasArgs \/ evt.isOffchain

\* the event is one whose handler awaits evt.getBlock()
NeedsBlock(evt, cache) ==
  /\ ~Skipped(evt)
  /\ evt.event = "DelayedOrderSubmitted"
  /\ evt.intentionTime = NoTime
  /\ cache[evt.blockNumber] = NoBlock

\* CacheAfter with the fetched block never stored
CacheAfterNoStore(evt, cache, fetched) == cache

\* blockCache after the event: fetched is the timestamp getBlock returned,
\* or NoBlock when it threw
CacheAfter(evt, cache, fetched) ==
  IF NeedsBlock(evt, cache) /\ fetched # NoBlock
  THEN [cache EXCEPT ![evt.blockNumber] = fetched]
  ELSE cache

\* let timestamp: from intentionTime, else the block's timestamp, else 0
EventTimestamp(evt, cache) ==
  IF evt.intentionTime # NoTime THEN evt.intentionTime
  ELSE IF cache[evt.blockNumber] # NoBlock THEN cache[evt.blockNumber]
  ELSE 0

\* IndexEvent with the DelayedOrderRemoved case leaving the entry in place
IndexEventKeepsRemoved(ords, evt, timestamp) ==
  IF Skipped(evt) THEN ords
  ELSE IF evt.event = "DelayedOrderSubmitted"
       THEN PutOrder(ords, [account |-> evt.account,
                            targetRoundId |-> evt.targetRoundId,
                            executableAtTime |-> evt.executableAtTime,
                            intentionTime |-> timestamp,
                            executionFailures |-> 0])
  ELSE ords

\* the switch (event) of the loop body, applied to the index
IndexEvent(ords, evt, timestamp) ==
  IF Skipped(evt) THEN ords
  ELSE IF evt.event = "DelayedOrderSubmitted"
       THEN PutOrder(ords, [account |-> evt.account,
                            targetRoundId |-> evt.targetRoundId,
                            executableAtTime |-> evt.executableAtTime,
                            intentionTime |-> timestamp,
                            executionFailures |-> 0])
  ELSE IF evt.event = "DelayedOrderRemoved"
       THEN DeleteOrder(ords, evt.account)
  ELSE ords

\* the event replaces or deletes this.orders[a]
Rewrites(evt, a) ==
  /\ ~Skipped(evt)
  /\ evt.account = a
  /\ evt.event \in {"DelayedOrderSubmitted", "DelayedOrderRemoved"}

\* updateIndex(events) is called with n events (n = 0 returns at once)
UpdateIndexCall(n) ==
  /\ uiPc = "idle"
  /\ uiPc' = IF n = 0 THEN "idle" ELSE "indexing"
  /\ uiLeft' = n
  /\ blockCache' = [b \in BlockNumbers |-> NoBlock]
  /\ UNCHANGED <<orders, exPc, snapshot, reads, batches, task, pool, waiters,
                 metrics, seen, execDeleted, failedTicks>>
  /\ UNCHANGED <<nonces, lvars, args>>

\* one iteration of for (const evt of events); returns after the last one
UpdateIndexEvent(evt, fetched) ==
  /\ uiPc = "indexing"
  /\ uiLeft > 0
  /\ LET cache == CacheAfter(evt, blockCache, fetched)
         last == uiLeft = 1
     IN /\ orders' = IndexEvent(orders, evt, EventTimestamp(evt, cache))
        /\ blockCache' = IF last THEN [b \in BlockNumbers |-> NoBlock] ELSE cache
        /\ uiLeft' = uiLeft - 1
        /\ uiPc' = IF last THEN "idle" ELSE "indexing"
  /\ task' = [a \in Accounts |->
               IF Rewrites(evt, a)
               THEN [task[a] EXCEPT !.aliased = FALSE,
                                    !.raced = task[a].pc \notin {"idle", "done"}]
               ELSE task[a]]
  /\ seen' = [a \in Accounts |->
               IF Rewrites(evt, a)
               THEN (IF evt.event = "DelayedOrderSubmitted" THEN "submitted"
                     ELSE "removed")
               ELSE seen[a]]
  /\ execDeleted' = [a \in Accounts |->
                      IF Rewrites(evt, a) THEN FALSE ELSE execDeleted[a]]
  /\ failedTicks' = [a \in Accounts |->
                      IF Rewrites(evt, a) THEN 0 ELSE failedTicks[a]]
  /\ UNCHANGED <<exPc, snapshot, reads, batches, pool, waiters, metrics>>
  /\ UNCHANGED <<nonces, lvars, args>>

(***************************************************************************)
(* The signer pool (src/signerpool is not among the sources: modelled from  *)
(* the specification, section 4.1)                                          *)
(***************************************************************************)
\* withSigner: the waiter served is the first in arrival order
NextWaiter(q) == Head(q)

\* release: the signer returns to the pool on every exit of the task
Release(p, s) == p \cup {s}

(***************************************************************************)
(* Keeper base class (src/keepers/index.ts is not among the sources)        *)
(***************************************************************************)
\* Keeper.MAX_BATCH_SIZE
MAX_BATCH_SIZE == 2

(***************************************************************************)
(* executeOrder                                                             *)
(***************************************************************************)
\* order.executionFailures > this.maxExecAttempts
ExceededAttempts(order) == order.executionFailures > maxExecAttempts

\* Prelude without the if (!order) return
PreludeNoTrackedCheck(ords, a) ==
  LET order == GetOrder(ords, a) IN
  IF ExceededAttempts(order)
  THEN [NoTask EXCEPT !.pc = "done", !.order = order, !.outcome = "evicted"]
  ELSE [NoTask EXCEPT !.pc = "signer", !.order = order, !.aliased = TRUE]

\* executeOrder(account) up to its first await: the task it leaves behind
Prelude(ords, a) ==
  LET order == GetOrder(ords, a) IN
  IF ~HasOrder(ords, a)
  THEN [NoTask EXCEPT !.pc = "done", !.outcome = "untracked"]
  ELSE IF ExceededAttempts(order)
  THEN [NoTask EXCEPT !.pc = "done", !.order = order, !.outcome = "evicted"]
  ELSE [NoTask EXCEPT !.pc = "signer", !.order = order, !.aliased = TRUE]

\* ChargeFailure with the failure counted twice
ChargeFailureTwice(ords, tk) ==
  IF tk.aliased /\ HasOrder(ords, tk.order.account)
  THEN PutOrder(ords, [tk.order EXCEPT !.executionFailures = @ + 2])
  ELSE ords

\* the catch block's order.executionFailures += 1, on the order object the task
\* read at its start: the index changes only while it still holds that object
ChargeFailure(ords, tk) ==
  IF tk.aliased /\ HasOrder(ords, tk.order.account)
  THEN PutOrder(ords, [tk.order EXCEPT !.executionFailures = @ + 1])
  ELSE ords

\* the catch block: the task ends with one failure charged and KeeperError counted
Catch(a, why) ==
  /\ orders' = ChargeFailure(orders, task[a])
  /\ task' = [task EXCEPT ![a].pc = "done", ![a].outcome = why, ![a].signer = 0,
                          ![a].order.executionFailures = @ + 1,
                          ![a].gasEstimation = 0, ![a].tx = NoTx]
  /\ metrics' = Count(metrics, "KeeperError", TRUE)
  /\ failedTicks' = [failedTicks EXCEPT
                      ![a] = IF ChargeFailure(orders, task[a]) # orders THEN @ + 1 ELSE @]
  /\ UNCHANGED execDeleted

\* TaskSigner with the signer left in the pool
TaskSignerKeepsPool(a) ==
  /\ task[a].pc = "signer"
  /\ waiters # <<>>
  /\ NextWaiter(waiters) = a
  /\ \E s \in pool : task' = [task EXCEPT ![a].pc = "read", ![a].signer = s]
  /\ waiters' = Tail(waiters)
  /\ UNCHANGED <<orders, uiPc, uiLeft, blockCache, exPc, snapshot, reads, batches,
                 pool, metrics, seen, execDeleted, failedTicks>>
  /\ UNCHANGED <<lvars, rvars>>

\* withSigner hands the task a signer; the task awaits market.delayedOrders(account)
TaskSigner(a) ==
  /\ task[a].pc = "signer"
  /\ waiters # <<>>
  /\ NextWaiter(waiters) = a
  /\ \E s \in pool :
       /\ pool' = pool \ {s}
       /\ task' = [task EXCEPT ![a].pc = "read", ![a].signer = s]
  /\ waiters' = Tail(waiters)
  /\ UNCHANGED <<orders, uiPc, uiLeft, blockCache, exPc, snapshot, reads, batches,
                 metrics, seen, execDeleted, failedTicks>>
  /\ UNCHANGED <<lvars, rvars>>

\* withSigner rejects (no signer became idle in time): the catch block runs
TaskSignerFail(a) ==
  /\ task[a].pc = "signer"
  /\ waiters' = SelectSeq(waiters, LAMBDA w : w # a)
  /\ Catch(a, "failed")
  /\ UNCHANGED <<uiPc, uiLeft, blockCache, exPc, snapshot, reads, batches, pool, seen>>
  /\ UNCHANGED <<nonces, lvars, rvars>>

\* TaskRead with the sizeDelta == 0 branch returning without the delete
TaskReadKeepsEntry(a, exists) ==
  /\ task[a].pc = "read"
  /\ IF exists
     THEN /\ task' = [task EXCEPT ![a].pc = "estimate", ![a].found = "nonzero"]
          /\ UNCHANGED <<pool, metrics>>
     ELSE /\ pool' = Release(pool, task[a].signer)
          /\ task' = [task EXCEPT ![a].pc = "done", ![a].signer = 0,
                                  ![a].found = "zero",
                                  ![a].outcome = "alreadyExecuted"]
          /\ metrics' = Count(Count(metrics, "DelayedOrderAlreadyExecuted", TRUE),
                              "DelayedOrderExecuted", TRUE)
  /\ UNCHANGED <<orders, execDeleted, failedTicks, uiPc, uiLeft, blockCache, exPc,
                 snapshot, reads, batches, waiters, seen>>
  /\ UNCHANGED <<lvars, rvars>>

\* market.delayedOrders(account) resolves: sizeDelta is zero (exists = FALSE) or not
TaskRead(a, exists) ==
  /\ task[a].pc = "read"
  /\ IF exists
     THEN /\ task' = [task EXCEPT ![a].pc = "estimate", ![a].found = "nonzero"]
          /\ UNCHANGED <<orders, pool, metrics, execDeleted, failedTicks>>
     ELSE /\ orders' = DeleteOrder(orders, a)
          /\ execDeleted' = [execDeleted EXCEPT ![a] = TRUE]
          /\ failedTicks' = [failedTicks EXCEPT ![a] = 0]
          /\ pool' = Release(pool, task[a].signer)
          /\ task' = [task EXCEPT ![a].pc = "done", ![a].signer = 0,
                                  ![a].aliased = FALSE, ![a].found = "zero",
                                  ![a].outcome = "alreadyExecuted"]
          /\ metrics' = Count(Count(metrics, "DelayedOrderAlreadyExecuted", TRUE),
                              "DelayedOrderExecuted", TRUE)
  /\ UNCHANGED <<uiPc, uiLeft, blockCache, exPc, snapshot, reads, batches, waiters, seen>>
  /\ UNCHANGED <<lvars, rvars>>

\* an await inside the withSigner task throws: the signer is released, the catch
\* block runs. stale: the call failed because the order is gone on-chain
TaskThrow(a, stale) ==
  /\ task[a].pc \in {"read", "estimate", "submit", "wait"}
  /\ stale => task[a].pc # "read"
  /\ pool' = Release(pool, task[a].signer)
  /\ Catch(a, IF stale THEN "failedStale" ELSE "failed")
  /\ UNCHANGED <<uiPc, uiLeft, blockCache, exPc, snapshot, reads, batches, waiters, seen>>
  /\ UNCHANGED <<lvars, rvars>>

\* wei(gasEstimation).mul(1.2).toBN()
GasLimit(gasEstimation) == (gasEstimation * 12) \div 10

\* market.estimateGas.executeDelayedOrder(account) resolves with gasEstimation;
\* gasLimit is computed and logged, and the task calls
\* market.executeDelayedOrder(account)
TaskEstimate(a, gasEstimation) ==
  /\ task[a].pc = "estimate"
  /\ task' = [task EXCEPT ![a].pc = "submit", ![a].gasEstimation = gasEstimation]
  /\ UNCHANGED <<orders, uiPc, uiLeft, blockCache, exPc, snapshot, reads, batches,
                 pool, waiters, metrics, seen, execDeleted, failedTicks>>
  /\ UNCHANGED <<nonces, lvars, rvars>>

\* TaskSubmit with the transaction awaited outside withSigner: the signer is
\* back in the pool once the transaction is submitted
TaskSubmitReleases(a) ==
  /\ task[a].pc = "submit"
  /\ pool' = Release(pool, task[a].signer)
  /\ task' = [task EXCEPT ![a].pc = "wait", ![a].sent = @ + 1,
                          ![a].tx = [from |-> task[a].signer,
                                     gasLimit |-> NoOverride,
                                     gasPrice |-> NoOverride]]
  /\ UNCHANGED <<orders, uiPc, uiLeft, blockCache, exPc, snapshot, reads, batches,
                 waiters, metrics, seen, execDeleted, failedTicks>>
  /\ UNCHANGED <<lvars, rvars>>

\* market.executeDelayedOrder(account), called with the account alone, resolves
\* with the submitted transaction; the task awaits this.waitTx(tx)
TaskSubmit(a) ==
  /\ task[a].pc = "submit"
  /\ task' = [task EXCEPT ![a].pc = "wait", ![a].sent = @ + 1,
                          ![a].tx = [from |-> task[a].signer,
                                     gasLimit |-> NoOverride,
                                     gasPrice |-> NoOverride]]
  /\ UNCHANGED <<orders, uiPc, uiLeft, blockCache, exPc, snapshot, reads, batches,
                 pool, waiters, metrics, seen, execDeleted, failedTicks>>
  /\ UNCHANGED <<lvars, rvars>>

\* TaskWait without the delete this.orders[account] after the confirmation
TaskWaitKeepsEntry(a) ==
  /\ task[a].pc = "wait"
  /\ pool' = Release(pool, task[a].signer)
  /\ task' = [task EXCEPT ![a].pc = "done", ![a].signer = 0,
                          ![a].outcome = "executed", ![a].confirmed = @ + 1,
                          ![a].gasEstimation = 0, ![a].tx = NoTx]
  /\ metrics' = Count(metrics, "DelayedOrderExecuted", TRUE)
  /\ UNCHANGED <<orders, execDeleted, failedTicks, uiPc, uiLeft, blockCache, exPc,
                 snapshot, reads, batches, waiters, seen>>
  /\ UNCHANGED <<lvars, rvars>>

\* waitTx resolves: the entry is deleted, the signer released, the metric counted
TaskWait(a) ==
  /\ task[a].pc = "wait"
  /\ orders' = DeleteOrder(orders, a)
  /\ execDeleted' = [execDeleted EXCEPT ![a] = TRUE]
  /\ failedTicks' = [failedTicks EXCEPT ![a] = 0]
  /\ pool' = Release(pool, task[a].signer)
  /\ task' = [task EXCEPT ![a].pc = "done", ![a].signer = 0, ![a].aliased = FALSE,
                          ![a].outcome = "executed", ![a].confirmed = @ + 1,
                          ![a].gasEstimation = 0, ![a].tx = NoTx]
  /\ metrics' = Count(metrics, "DelayedOrderExecuted", TRUE)
  /\ UNCHANGED <<uiPc, uiLeft, blockCache, exPc, snapshot, reads, batches, waiters, seen>>
  /\ UNCHANGED <<lvars, rvars>>

(***************************************************************************)
(* execute                                                                  *)
(***************************************************************************)
\* Ready with && in place of ||
ReadyBoth(o, currentRoundId, timestamp) ==
  currentRoundId >= o.targetRoundId /\ timestamp >= o.executableAtTime

\* currentRoundId.gte(targetRoundId) || BigNumber.from(block.timestamp).gte(executableAtTime)
Ready(o, currentRoundId, timestamp) ==
  currentRoundId >= o.targetRoundId \/ timestamp >= o.executableAtTime

\* Object.values(this.orders): the order objects, by the fields execute reads
\* through them (none of which is ever assigned after the order is indexed)
OrderValues(ords) ==
  [i \in 1..Len(ords) |-> [account |-> ords[i].account,
                           targetRoundId |-> ords[i].targetRoundId,
                           executableAtTime |-> ords[i].executableAtTime]]

\* orders.filter(...), as the accounts of the orders kept, in order
ExecutableOrders(ords, currentRoundId, timestamp) ==
  LET kept == SelectSeq(ords, LAMBDA o : Ready(o, currentRoundId, timestamp))
  IN [i \in 1..Len(kept) |-> kept[i].account]

\* Chunk putting the whole list in one batch
ChunkWhole(list, size) == IF Len(list) = 0 THEN <<>> ELSE <<list>>

\* lodash chunk(list, size)
RECURSIVE Chunk(_, _)
Chunk(list, size) ==
  IF Len(list) = 0 THEN <<>>
  ELSE IF Len(list) <= size THEN <<list>>
  ELSE <<SubSeq(list, 1, size)>> \o Chunk(SubSeq(list, size + 1, Len(list)), size)

InBatch(batch, a) == \E i \in 1..Len(batch) : batch[i] = a

\* batch.map(account => execAsyncKeeperCallback(account, () => executeOrder(account))):
\* every task of the batch runs up to its first await
StartBatch(batch) ==
  LET started == [a \in Accounts |-> Prelude(orders, a)]
      evicted(a) == InBatch(batch, a) /\ started[a].outcome = "evicted"
  IN /\ task' = [a \in Accounts |-> IF InBatch(batch, a) THEN started[a] ELSE task[a]]
     /\ orders' = SelectSeq(orders, LAMBDA o : ~evicted(o.account))
     /\ execDeleted' = [a \in Accounts |-> execDeleted[a] \/ evicted(a)]
     /\ failedTicks' = [a \in Accounts |-> IF evicted(a) THEN 0 ELSE failedTicks[a]]
     /\ waiters' = waiters \o SelectSeq(batch, LAMBDA a : started[a].pc = "signer")

\* execute returns: its locals are gone
Return ==
  /\ exPc' = "idle"
  /\ snapshot' = <<>>
  /\ reads' = NoReads
  /\ batches' = <<>>
  /\ task' = [a \in Accounts |-> NoTask]
  /\ metrics' = NoMetrics

\* ExecuteCall without the orders.length === 0 return
ExecuteCallNoEmptyCheck ==
  /\ exPc = "idle"
  /\ exPc' = "reading"
  /\ snapshot' = OrderValues(orders)
  /\ UNCHANGED <<orders, uiPc, uiLeft, blockCache, reads, batches, task, pool,
                 waiters, metrics, seen, execDeleted, failedTicks>>
  /\ UNCHANGED <<nonces, lvars, rvars>>

\* execute() is called: Object.values(this.orders); no orders, no work
ExecuteCall ==
  /\ exPc = "idle"
  /\ IF Len(orders) = 0
     THEN UNCHANGED <<exPc, snapshot>>
     ELSE /\ exPc' = "reading"
          /\ snapshot' = OrderValues(orders)
  /\ UNCHANGED <<orders, uiPc, uiLeft, blockCache, reads, batches, task, pool,
                 waiters, metrics, seen, execDeleted, failedTicks>>
  /\ UNCHANGED <<nonces, lvars, rvars>>

\* getCurrentRoundId and getBlock resolve: the ready orders are filtered and
\* chunked, and the first batch starts
ExecuteRead(currentRoundId, timestamp) ==
  /\ exPc = "reading"
  /\ LET executableOrders == ExecutableOrders(snapshot, currentRoundId, timestamp)
         chunks == Chunk(executableOrders, MAX_BATCH_SIZE)
     IN IF Len(executableOrders) = 0
        THEN /\ Return
             /\ UNCHANGED <<orders, waiters, execDeleted, failedTicks>>
        ELSE /\ exPc' = "batch"
             /\ reads' = [currentRoundId |-> currentRoundId, timestamp |-> timestamp]
             /\ batches' = chunks
             /\ StartBatch(Head(chunks))
             /\ UNCHANGED <<snapshot, metrics>>
  /\ UNCHANGED <<uiPc, uiLeft, blockCache, pool, seen>>
  /\ UNCHANGED <<nonces, lvars, rvars>>

\* ExecuteReadFail without the try/catch of execute: the rejection reaches the caller
ExecuteReadFailPropagates ==
  /\ exPc = "reading"
  /\ exPc' = "threw"
  /\ UNCHANGED <<snapshot, reads, batches, task, metrics>>
  /\ UNCHANGED <<orders, uiPc, uiLeft, blockCache, pool, waiters, seen, execDeleted,
                 failedTicks>>
  /\ UNCHANGED <<nonces, lvars, rvars>>

\* getCurrentRoundId, getBlockNumber or getBlock throws: execute's catch logs it
ExecuteReadFail ==
  /\ exPc = "reading"
  /\ Return
  /\ UNCHANGED <<orders, uiPc, uiLeft, blockCache, pool, waiters, seen, execDeleted,
                 failedTicks>>
  /\ UNCHANGED <<nonces, lvars, rvars>>

\* BatchDone with a failed task rejecting Promise.all: execute's catch ends the call
BatchDoneRejects ==
  /\ exPc = "batch"
  /\ \A a \in Accounts : InBatch(Head(batches), a) => task[a].pc = "done"
  /\ IF \E a \in Accounts : /\ InBatch(Head(batches), a)
                            /\ task[a].outcome \in {"failed", "failedStale"}
     THEN Return
     ELSE /\ exPc' = "delay"
          /\ UNCHANGED <<snapshot, reads, batches, task, metrics>>
  /\ UNCHANGED <<orders, uiPc, uiLeft, blockCache, pool, waiters, seen, execDeleted,
                 failedTicks>>
  /\ UNCHANGED <<nonces, lvars, rvars>>

\* Promise.all(batches) resolves: every task of the batch has ended
BatchDone ==
  /\ exPc = "batch"
  /\ \A a \in Accounts : InBatch(Head(batches), a) => task[a].pc = "done"
  /\ exPc' = "delay"
  /\ UNCHANGED <<orders, uiPc, uiLeft, blockCache, snapshot, reads, batches, task,
                 pool, waiters, metrics, seen, execDeleted, failedTicks>>
  /\ UNCHANGED <<nonces, lvars, rvars>>

\* delay(BATCH_WAIT_TIME) resolves: the next batch starts, or execute returns
DelayDone ==
  /\ exPc = "delay"
  /\ IF Len(batches) > 1
     THEN /\ exPc' = "batch"
          /\ batches' = Tail(batches)
          /\ StartBatch(Head(Tail(batches)))
          /\ UNCHANGED <<snapshot, reads, metrics>>
     ELSE /\ Return
          /\ UNCHANGED <<orders, waiters, execDeleted, failedTicks>>
  /\ UNCHANGED <<uiPc, uiLeft, blockCache, pool, seen>>
  /\ UNCHANGED <<nonces, lvars, rvars>>

(***************************************************************************)
(* Signer pool nonces (src/signerpool is not among the sources: modelled    *)
(* from the specification, sections 3 and 4.1). A lease carries the nonce   *)
(* the pool remembers for the key; each transaction the chain accepts takes *)
(* the lease's nonce and advances it; a release after success remembers the *)
(* advanced nonce, a release after a failure re-reads the chain's count.    *)
(***************************************************************************)
\* who can hold a lease: an executeOrder task, LiquidationKeeper.execute's task
Holders == Accounts \cup {"multicall"}

NoLease == -1

NoNonces == [remembered |-> [s \in Signers |-> 0],
             accepted |-> [s \in Signers |-> 0],
             lease |-> [h \in Holders |-> NoLease]]

\* withSigner leases signer s to holder h
Acquire(ns, s, h) == [ns EXCEPT !.lease[h] = ns.remembered[s]]

\* the chain accepts a transaction of holder h signed by s
Accept(ns, s, h) == [ns EXCEPT !.accepted[s] = @ + 1, !.lease[h] = @ + 1]

\* the task of holder h returned
ReleaseOk(ns, s, h) == [ns EXCEPT !.remembered[s] = ns.lease[h], !.lease[h] = NoLease]

\* the task of holder h threw: the key is re-synchronised with the chain
ReleaseFail(ns, s, h) == [ns EXCEPT !.remembered[s] = ns.accepted[s],
                                    !.lease[h] = NoLease]

(***************************************************************************)
(* LiquidationKeeper: events and the index of positions                     *)
(***************************************************************************)
\* the fixed-point unit of on-chain amounts (10^18 on-chain; scaled down here so
\* that products stay within TLC's integers)
UNIT == 100

\* liqPrice: -1, "will be updated by keeper routine"
UnknownLiqPrice == -1

\* on-chain amounts the events carry: whole multiples of UNIT
Sizes == {0, 10 * UNIT, -20 * UNIT}
Margins == {0, 100 * UNIT}
LastPrices == {50 * UNIT}
\* block.timestamp and FundingRecomputed's timestamp; asset prices
TipTimes == {30000, 60000}
AssetPrices == {100}
\* what market.liquidationPrice(account) can report as price
LiqPriceReads == {0, 99 * UNIT}

PositionEventKinds == {"FundingRecomputed", "PositionLiquidated", "PositionModified",
                       "PositionFlagged"}

ModifiedEvents ==
  [event : {"PositionModified"}, hasArgs : {TRUE}, id : {1}, account : EventAccounts,
   size : Sizes, margin : Margins, lastPrice : LastPrices, timestamp : {0}]

\* PositionLiquidated, PositionFlagged, and an event the switch has no case for
ClosingEvents ==
  [event : {"PositionLiquidated", "PositionFlagged", "DelayedOrderSubmitted"},
   hasArgs : {TRUE}, id : {0}, account : EventAccounts,
   size : {0}, margin : {0}, lastPrice : {0}, timestamp : {0}]

FundingEvents ==
  [event : {"FundingRecomputed"}, hasArgs : {TRUE}, id : {0}, account : {""},
   size : {0}, margin : {0}, lastPrice : {0}, timestamp : TipTimes]

\* events whose args are undefined
ArglessEvents ==
  [event : PositionEventKinds, hasArgs : {FALSE}, id : {0}, account : {""},
   size : {0}, margin : {0}, lastPrice : {0}, timestamp : {0}]

PositionEvents == ModifiedEvents \cup ClosingEvents \cup FundingEvents
                  \cup ArglessEvents

\* the accounts feeding execute's pages: more than one page of them
PagedNames == <<"0x01", "0x02", "0x03", "0x04", "0x05", "0x06", "0x07", "0x08",
                "0x09", "0x0a", "0x0b", "0x0c", "0x0d", "0x0e", "0x0f", "0x10",
                "0x11", "0x12", "0x13", "0x14", "0x15", "0x16", "0x17">>
\* the most positions the paged index holds
MaxPaged == 22

PositionAccounts == Accounts \cup {PagedNames[i] : i \in 1..Len(PagedNames)}

Abs(x) == IF x < 0 THEN -x ELSE x

\* account in this.positions
HasPosition(ps, a) == \E i \in 1..Len(ps) : ps[i].account = a

NoPosition == [id |-> 0, account |-> "", size |-> 0, leverage |-> 0,
               liqPrice |-> UnknownLiqPrice, liqPriceUpdatedTimestamp |-> 0]

\* this.positions[account]
GetPosition(ps, a) ==
  IF HasPosition(ps, a)
  THEN ps[CHOOSE i \in 1..Len(ps) : ps[i].account = a]
  ELSE NoPosition

\* this.positions[account] = p : an existing key keeps its place
PutPosition(ps, p) ==
  IF HasPosition(ps, p.account)
  THEN [i \in 1..Len(ps) |-> IF ps[i].account = p.account THEN p ELSE ps[i]]
  ELSE Append(ps, p)

\* delete this.positions[account]
DeletePosition(ps, a) == SelectSeq(ps, LAMBDA p : p.account # a)

PositionKeys(ps) == {ps[i].account : i \in 1..Len(ps)}

\* wei(size).div(UNIT).toNumber()
PositionSize(size) == size \div UNIT

\* wei(size).abs().mul(lastPrice).div(margin).div(UNIT).toNumber()
PositionLeverage(size, lastPrice, margin) ==
  ((Abs(size) * lastPrice) \div margin) \div UNIT

(***************************************************************************)
(* LiquidationKeeper.updateIndex                                            *)
(***************************************************************************)
\* PositionModified with the margin.eq(0) case writing the position all the same
IndexPositionEventKeepsClosed(ps, e) ==
  IF ~e.hasArgs THEN ps
  ELSE IF e.event = "PositionModified"
       THEN PutPosition(ps, [id |-> e.id, account |-> e.account,
                             size |-> PositionSize(e.size),
                             leverage |-> IF e.margin = 0 THEN 0
                                          ELSE PositionLeverage(e.size, e.lastPrice,
                                                                e.margin),
                             liqPrice |-> UnknownLiqPrice,
                             liqPriceUpdatedTimestamp |-> 0])
  ELSE IF e.event \in {"PositionLiquidated", "PositionFlagged"}
       THEN DeletePosition(ps, e.account)
  ELSE ps

\* IndexPositionEvent with PositionModified adding its size to the entry's
IndexPositionEventAddsSize(ps, e) ==
  IF ~e.hasArgs THEN ps
  ELSE IF e.event = "PositionModified"
       THEN IF e.margin = 0
            THEN DeletePosition(ps, e.account)
            ELSE PutPosition(ps, [id |-> e.id, account |-> e.account,
                                  size |-> GetPosition(ps, e.account).size
                                             + PositionSize(e.size),
                                  leverage |-> PositionLeverage(e.size, e.lastPrice,
                                                                e.margin),
                                  liqPrice |-> UnknownLiqPrice,
                                  liqPriceUpdatedTimestamp |-> 0])
  ELSE IF e.event \in {"PositionLiquidated", "PositionFlagged"}
       THEN DeletePosition(ps, e.account)
  ELSE ps

\* the switch (event) of the forEach body, applied to the index
IndexPositionEvent(ps, e) ==
  IF ~e.hasArgs THEN ps
  ELSE IF e.event = "PositionModified"
       THEN IF e.margin = 0
            THEN DeletePosition(ps, e.account)
            ELSE PutPosition(ps, [id |-> e.id, account |-> e.account,
                                  size |-> PositionSize(e.size),
                                  leverage |-> PositionLeverage(e.size, e.lastPrice,
                                                                e.margin),
                                  liqPrice |-> UnknownLiqPrice,
                                  liqPriceUpdatedTimestamp |-> 0])
  ELSE IF e.event \in {"PositionLiquidated", "PositionFlagged"}
       THEN DeletePosition(ps, e.account)
  ELSE ps

\* the switch (event) of the forEach body, applied to blockTipTimestamp
TipAfterEvent(tip, e) ==
  IF e.hasArgs /\ e.event = "FundingRecomputed" THEN e.timestamp ELSE tip

\* the event writes or deletes this.positions[a]
RewritesPosition(e, a) ==
  /\ e.hasArgs
  /\ e.account = a
  /\ e.event \in {"PositionModified", "PositionLiquidated", "PositionFlagged"}

\* absent arguments of updateIndex: block undefined, assetPrice undefined or 0
NoTip == 0
NoPrice == 0

\* updateIndex(events, block, assetPrice) is called with n events: the block's
\* timestamp and the price are kept (n = 0 returns at once)
LqUpdateIndexCall(n, blockTimestamp, price) ==
  /\ piLeft = 0
  /\ blockTipTimestamp' = IF blockTimestamp # NoTip THEN blockTimestamp
                          ELSE blockTipTimestamp
  /\ assetPrice' = IF price # NoPrice THEN price ELSE assetPrice
  /\ piLeft' = n
  /\ UNCHANGED <<positions, posSeen, refreshed, lq, lp, nonces, pool, waiters, metrics>>
  /\ UNCHANGED <<orders, uiPc, uiLeft, blockCache, exPc, snapshot, reads, batches,
                 task, seen, execDeleted, failedTicks>>
  /\ UNCHANGED args

\* one iteration of events.forEach(...), which awaits nothing; an entry written or
\* deleted is no longer the object a liquidatePosition in flight holds
LqUpdateIndexEvent(e) ==
  /\ piLeft > 0
  /\ piLeft' = piLeft - 1
  /\ blockTipTimestamp' = TipAfterEvent(blockTipTimestamp, e)
  /\ positions' = IndexPositionEvent(positions, e)
  /\ posSeen' = [a \in PositionAccounts |->
                  IF ~RewritesPosition(e, a) THEN posSeen[a]
                  ELSE IF e.event = "PositionModified" /\ e.margin # 0 THEN "open"
                  ELSE "closed"]
  /\ refreshed' = [a \in PositionAccounts |->
                    IF RewritesPosition(e, a) THEN "never" ELSE refreshed[a]]
  /\ lp' = IF lp.target = "indexed" /\ RewritesPosition(e, lp.account)
            THEN [lp EXCEPT !.target = "replaced"]
            ELSE lp
  /\ UNCHANGED <<assetPrice, lq, nonces, pool, waiters, metrics>>
  /\ UNCHANGED <<orders, uiPc, uiLeft, blockCache, exPc, snapshot, reads, batches,
                 task, seen, execDeleted, failedTicks>>
  /\ UNCHANGED args

(***************************************************************************)
(* LiquidationKeeper.hydrateIndex                                           *)
(***************************************************************************)
\* { ...position, ...this.positions[position.account] }: an entry the index
\* holds overrides every field of the snapshot's position
MergePosition(position, ps) ==
  IF HasPosition(ps, position.account) THEN GetPosition(ps, position.account)
  ELSE position

\* HydratedPositions with the spread the other way round: the snapshot's
\* position overrides the entry the index holds
RECURSIVE HydratedPositionsSnapshotWins(_, _)
HydratedPositionsSnapshotWins(ps, snap) ==
  IF snap = <<>> THEN <<>>
  ELSE PutPosition(HydratedPositionsSnapshotWins(ps, SubSeq(snap, 1, Len(snap) - 1)),
                   snap[Len(snap)])

\* HydratedPositions with newPositions starting from the index held, not empty
RECURSIVE HydratedPositionsOntoIndex(_, _)
HydratedPositionsOntoIndex(ps, snap) ==
  IF snap = <<>> THEN ps
  ELSE PutPosition(HydratedPositionsOntoIndex(ps, SubSeq(snap, 1, Len(snap) - 1)),
                   MergePosition(snap[Len(snap)], ps))

\* newPositions after the for loop over the snapshot
RECURSIVE HydratedPositions(_, _)
HydratedPositions(ps, snap) ==
  IF snap = <<>> THEN <<>>
  ELSE PutPosition(HydratedPositions(ps, SubSeq(snap, 1, Len(snap) - 1)),
                   MergePosition(snap[Len(snap)], ps))

\* LqHydrateIndex with this.positions = newPositions left out
LqHydrateIndexTipOnly(snap, blockTimestamp) ==
  /\ piLeft = 0
  /\ blockTipTimestamp' = blockTimestamp
  /\ UNCHANGED <<positions, posSeen, refreshed>>
  /\ UNCHANGED <<assetPrice, piLeft, lq, lp, nonces, pool, waiters, metrics>>
  /\ UNCHANGED <<orders, uiPc, uiLeft, blockCache, exPc, snapshot, reads, batches,
                 task, seen, execDeleted, failedTicks>>
  /\ UNCHANGED args

\* hydrateIndex(positions, block), which awaits nothing; every entry of
\* newPositions is a new object
LqHydrateIndex(snap, blockTimestamp) ==
  /\ piLeft = 0
  /\ positions' = HydratedPositions(positions, snap)
  /\ blockTipTimestamp' = blockTimestamp
  /\ posSeen' = [a \in PositionAccounts |->
                  IF HasPosition(positions', a) THEN "open"
                  ELSE IF HasPosition(positions, a) THEN "closed"
                  ELSE posSeen[a]]
  /\ refreshed' = [a \in PositionAccounts |->
                    IF HasPosition(positions, a) /\ HasPosition(positions', a)
                    THEN refreshed[a]
                    ELSE "never"]
  /\ lp' = IF lp.target = "indexed" THEN [lp EXCEPT !.target = "replaced"] ELSE lp
  /\ UNCHANGED <<assetPrice, piLeft, lq, nonces, pool, waiters, metrics>>
  /\ UNCHANGED <<orders, uiPc, uiLeft, blockCache, exPc, snapshot, reads, batches,
                 task, seen, execDeleted, failedTicks>>
  /\ UNCHANGED args

(***************************************************************************)
(* LiquidationKeeper.liquidationGroups                                      *)
(***************************************************************************)
\* priceProximityThreshold = 0.05, as hundredths
priceProximityThreshold == 5
maxFarPricesToUpdate == 1
farPriceRecencyCutoff == 6 * 3600

\* Math.abs(p.liqPrice - this.assetPrice) / this.assetPrice <= priceProximityThreshold
\* (a division by an assetPrice of 0 yields Infinity or NaN: never <=)
IsClose(p, price) ==
  IF price = 0 THEN FALSE
  ELSE Abs(p.liqPrice - price) * 100 <= priceProximityThreshold * price

\* Math.abs(p.liqPrice - this.assetPrice) / this.assetPrice > priceProximityThreshold
\* (Infinity is, NaN is not)
IsFar(p, price) ==
  IF price = 0 THEN p.liqPrice # 0
  ELSE Abs(p.liqPrice - price) * 100 > priceProximityThreshold * price

\* the comparator's verdict on two keys, compared field by field: a - b || c - d
RECURSIVE KeyBefore(_, _)
KeyBefore(k1, k2) ==
  IF k1 = <<>> THEN FALSE
  ELSE IF Head(k1) # Head(k2) THEN Head(k1) < Head(k2)
  ELSE KeyBefore(Tail(k1), Tail(k2))

\* Array.prototype.sort, which is stable: x goes after every element that is not
\* after it
RECURSIVE InsertSorted(_, _)
InsertSorted(sorted, x) ==
  IF sorted = <<>> THEN <<x>>
  ELSE IF KeyBefore(x.key, sorted[Len(sorted)].key)
       THEN Append(InsertSorted(SubSeq(sorted, 1, Len(sorted) - 1), x),
                   sorted[Len(sorted)])
       ELSE Append(sorted, x)

RECURSIVE SortKeyed(_)
SortKeyed(keyed) ==
  IF keyed = <<>> THEN <<>>
  ELSE InsertSorted(SortKeyed(SubSeq(keyed, 1, Len(keyed) - 1)), keyed[Len(keyed)])

Unkeyed(keyed) == [i \in 1..Len(keyed) |-> keyed[i].val]

\* SortClose comparing the leverage before the distance
SortCloseLeverageFirst(ps, price) ==
  Unkeyed(SortKeyed([i \in 1..Len(ps) |->
            [key |-> <<-ps[i].leverage, Abs(ps[i].liqPrice - price)>>, val |-> ps[i]]]))

\* liqPriceClose.sort(...): ascending distance to the price, then descending leverage
SortClose(ps, price) ==
  Unkeyed(SortKeyed([i \in 1..Len(ps) |->
            [key |-> <<Abs(ps[i].liqPrice - price), -ps[i].leverage>>, val |-> ps[i]]]))

\* unknownLiqPrice.sort(...): descending leverage
SortUnknown(ps) ==
  Unkeyed(SortKeyed([i \in 1..Len(ps) |-> [key |-> <<-ps[i].leverage>>, val |-> ps[i]]]))

\* SortOutdated with the most recently updated first
SortOutdatedDescending(ps) ==
  Unkeyed(SortKeyed([i \in 1..Len(ps) |->
            [key |-> <<-ps[i].liqPriceUpdatedTimestamp>>, val |-> ps[i]]]))

\* outdatedLiqPrices.sort(...): ascending liqPriceUpdatedTimestamp
SortOutdated(ps) ==
  Unkeyed(SortKeyed([i \in 1..Len(ps) |->
            [key |-> <<ps[i].liqPriceUpdatedTimestamp>>, val |-> ps[i]]]))

\* Array.prototype.slice(0, n)
Slice(list, n) == SubSeq(list, 1, IF Len(list) < n THEN Len(list) ELSE n)

\* liquidationGroups with the far prices filtered out of posArr, not of knownLiqPrice
liquidationGroupsFarOfAll(posArr, price, tip) ==
  LET knownLiqPrice == SelectSeq(posArr, LAMBDA p : p.liqPrice # UnknownLiqPrice)
      unknownLiqPrice == SelectSeq(posArr, LAMBDA p : p.liqPrice = UnknownLiqPrice)
      liqPriceClose == SelectSeq(knownLiqPrice, LAMBDA p : IsClose(p, price))
      liqPriceFar == SelectSeq(posArr, LAMBDA p : IsFar(p, price))
      outdatedLiqPrices ==
        SelectSeq(liqPriceFar,
                  LAMBDA p : p.liqPriceUpdatedTimestamp < tip - farPriceRecencyCutoff)
  IN <<SortClose(liqPriceClose, price),
       SortUnknown(unknownLiqPrice),
       Slice(SortOutdated(outdatedLiqPrices), maxFarPricesToUpdate)>>

\* liquidationGroups(posArr) with the default thresholds: [close, unknown, outdated]
liquidationGroups(posArr, price, tip) ==
  LET knownLiqPrice == SelectSeq(posArr, LAMBDA p : p.liqPrice # UnknownLiqPrice)
      unknownLiqPrice == SelectSeq(posArr, LAMBDA p : p.liqPrice = UnknownLiqPrice)
      liqPriceClose == SelectSeq(knownLiqPrice, LAMBDA p : IsClose(p, price))
      liqPriceFar == SelectSeq(knownLiqPrice, LAMBDA p : IsFar(p, price))
      outdatedLiqPrices ==
        SelectSeq(liqPriceFar,
                  LAMBDA p : p.liqPriceUpdatedTimestamp < tip - farPriceRecencyCutoff)
  IN <<SortClose(liqPriceClose, price),
       SortUnknown(unknownLiqPrice),
       Slice(SortOutdated(outdatedLiqPrices), maxFarPricesToUpdate)>>

\* the accounts of a list of positions, in order
AccountsOf(ps) == [i \in 1..Len(ps) |-> ps[i].account]

(***************************************************************************)
(* LiquidationKeeper.execute                                                *)
(***************************************************************************)
\* const pageSize = 20
pageSize == 20

\* execute's position (pc) and locals: openPositions, staticResultsArray,
\* successfulPositions and executeCalls as the accounts they speak of, the signer
\* leased, gasEstimation, gasPrice and flagTx; and, as history, how the last
\* call ended (outcome)
NoLq == [pc |-> "idle", openPositions |-> <<>>, staticResultsArray |-> <<>>,
         successfulPositions |-> <<>>, executeCalls |-> <<>>, signer |-> 0,
         gasEstimation |-> 0, gasPrice |-> 0, flagTx |-> NoTx, outcome |-> "none"]

\* OpenPositions without the filter on size
OpenPositionsAll(ps) == AccountsOf(ps)

\* Object.values(this.positions).filter(p => Math.abs(p.size) > 0)
OpenPositions(ps) == AccountsOf(SelectSeq(ps, LAMBDA p : Abs(p.size) > 0))

\* what callStatic.aggregate3 returns for a page of flagPosition calls, the calls
\* for the accounts of reverts failing
StaticResults(page, reverts) ==
  [i \in 1..Len(page) |-> [success |-> page[i] \notin reverts]]

\* for (let i = 0; ...; i += pageSize): one aggregate3 dry run per page
StaticResultsArray(open, reverts) ==
  LET pages == Chunk(open, pageSize)
  IN [index \in 1..Len(pages) |-> StaticResults(pages[index], reverts)]

\* staticResultsArray.forEach(...): the positions whose call succeeded, page by page
RECURSIVE SuccessfulPositions(_, _, _)
SuccessfulPositions(open, results, index) ==
  IF index > Len(results) THEN <<>>
  ELSE LET first == (index - 1) * pageSize
           last == IF index * pageSize < Len(open) THEN index * pageSize ELSE Len(open)
           paginatedOrders == SubSeq(open, first + 1, last)
           kept == {i \in 1..Len(paginatedOrders) : results[index][i].success}
           page == SelectSeq([i \in 1..Len(paginatedOrders) |->
                                [account |-> paginatedOrders[i], at |-> i]],
                             LAMBDA c : c.at \in kept)
       IN [i \in 1..Len(page) |-> page[i].account]
          \o SuccessfulPositions(open, results, index + 1)

\* ExecuteCalls without the slice(0, pageSize)
ExecuteCallsAll(successful) == successful

\* successfulPositions.slice(0, pageSize).map(...): the calls of the transaction
ExecuteCalls(successful) == Slice(successful, pageSize)

\* execute returns: its locals are gone
LqReturn(how) == lq' = [NoLq EXCEPT !.outcome = how]

\* execute() is called: the open positions are paged and dry-run
LqExecuteCall ==
  /\ lq.pc = "idle"
  /\ LET open == OpenPositions(positions)
     IN IF Len(open) > 0
        THEN lq' = [NoLq EXCEPT !.pc = "dryrun", !.openPositions = open]
        ELSE LqReturn("nothingOpen")
  /\ UNCHANGED <<positions, blockTipTimestamp, assetPrice, piLeft, lp, posSeen, refreshed>>
  /\ UNCHANGED <<nonces, pool, waiters, metrics>>
  /\ UNCHANGED <<orders, uiPc, uiLeft, blockCache, exPc, snapshot, reads, batches,
                 task, seen, execDeleted, failedTicks>>
  /\ UNCHANGED rvars

\* Promise.all(staticCallPromises) resolves: the successful positions are kept and,
\* when there are any, a signer is asked for
LqDryRun(reverts) ==
  /\ lq.pc = "dryrun"
  /\ LET results == StaticResultsArray(lq.openPositions, reverts)
         successful == SuccessfulPositions(lq.openPositions, results, 1)
     IN IF Len(successful) > 0
        THEN /\ lq' = [lq EXCEPT !.pc = "signer", !.staticResultsArray = results,
                                 !.successfulPositions = successful,
                                 !.executeCalls = ExecuteCalls(successful)]
             /\ waiters' = Append(waiters, "multicall")
        ELSE /\ LqReturn("nothingAccepted")
             /\ UNCHANGED waiters
  /\ UNCHANGED <<positions, blockTipTimestamp, assetPrice, piLeft, lp, posSeen, refreshed>>
  /\ UNCHANGED <<nonces, pool, metrics>>
  /\ UNCHANGED <<orders, uiPc, uiLeft, blockCache, exPc, snapshot, reads, batches,
                 task, seen, execDeleted, failedTicks>>
  /\ UNCHANGED rvars

\* a dry run throws: execute's catch logs it
LqDryRunFail ==
  /\ lq.pc = "dryrun"
  /\ LqReturn("failed")
  /\ UNCHANGED <<positions, blockTipTimestamp, assetPrice, piLeft, lp, posSeen, refreshed>>
  /\ UNCHANGED <<nonces, pool, waiters, metrics>>
  /\ UNCHANGED <<orders, uiPc, uiLeft, blockCache, exPc, snapshot, reads, batches,
                 task, seen, execDeleted, failedTicks>>
  /\ UNCHANGED rvars

\* withSigner hands the task a signer; the task awaits estimateGas.aggregate3
LqSigner ==
  /\ lq.pc = "signer"
  /\ waiters # <<>>
  /\ NextWaiter(waiters) = "multicall"
  /\ \E s \in pool :
       /\ pool' = pool \ {s}
       /\ lq' = [lq EXCEPT !.pc = "estimate", !.signer = s]
  /\ waiters' = Tail(waiters)
  /\ UNCHANGED <<positions, blockTipTimestamp, assetPrice, piLeft, lp, posSeen, refreshed>>
  /\ UNCHANGED metrics
  /\ UNCHANGED <<orders, uiPc, uiLeft, blockCache, exPc, snapshot, reads, batches,
                 task, seen, execDeleted, failedTicks>>
  /\ UNCHANGED rvars

\* withSigner rejects: the .catch logs it and execute returns
LqSignerFail ==
  /\ lq.pc = "signer"
  /\ waiters' = SelectSeq(waiters, LAMBDA w : w # "multicall")
  /\ LqReturn("failed")
  /\ UNCHANGED <<positions, blockTipTimestamp, assetPrice, piLeft, lp, posSeen, refreshed>>
  /\ UNCHANGED <<nonces, pool, metrics>>
  /\ UNCHANGED <<orders, uiPc, uiLeft, blockCache, exPc, snapshot, reads, batches,
                 task, seen, execDeleted, failedTicks>>
  /\ UNCHANGED rvars

\* multicall.estimateGas.aggregate3(executeCalls) resolves
LqEstimate(gasEstimation) ==
  /\ lq.pc = "estimate"
  /\ lq' = [lq EXCEPT !.pc = "gasPrice", !.gasEstimation = gasEstimation]
  /\ UNCHANGED <<positions, blockTipTimestamp, assetPrice, piLeft, lp, posSeen, refreshed>>
  /\ UNCHANGED <<nonces, pool, waiters, metrics>>
  /\ UNCHANGED <<orders, uiPc, uiLeft, blockCache, exPc, snapshot, reads, batches,
                 task, seen, execDeleted, failedTicks>>
  /\ UNCHANGED rvars

\* this.provider.getGasPrice() resolves; aggregate3(executeCalls, gasOptions) is called
LqGasPrice(gasPrice) ==
  /\ lq.pc = "gasPrice"
  /\ lq' = [lq EXCEPT !.pc = "submit", !.gasPrice = gasPrice * 2]
  /\ UNCHANGED <<positions, blockTipTimestamp, assetPrice, piLeft, lp, posSeen, refreshed>>
  /\ UNCHANGED <<nonces, pool, waiters, metrics>>
  /\ UNCHANGED <<orders, uiPc, uiLeft, blockCache, exPc, snapshot, reads, batches,
                 task, seen, execDeleted, failedTicks>>
  /\ UNCHANGED rvars

\* aggregate3(executeCalls, gasOptions) resolves with the submitted transaction;
\* the task awaits this.waitTx(flagTx)
LqSubmit ==
  /\ lq.pc = "submit"
  /\ lq' = [lq EXCEPT !.pc = "wait",
                      !.flagTx = [from |-> lq.signer,
                                  gasLimit |-> GasLimit(lq.gasEstimation),
                                  gasPrice |-> lq.gasPrice]]
  /\ UNCHANGED <<positions, blockTipTimestamp, assetPrice, piLeft, lp, posSeen, refreshed>>
  /\ UNCHANGED <<pool, waiters, metrics>>
  /\ UNCHANGED <<orders, uiPc, uiLeft, blockCache, exPc, snapshot, reads, batches,
                 task, seen, execDeleted, failedTicks>>
  /\ UNCHANGED rvars

\* waitTx resolves: the task is over, the signer released, execute returns
LqWait ==
  /\ lq.pc = "wait"
  /\ pool' = Release(pool, lq.signer)
  /\ LqReturn("confirmed")
  /\ UNCHANGED <<positions, blockTipTimestamp, assetPrice, piLeft, lp, posSeen, refreshed>>
  /\ UNCHANGED <<waiters, metrics>>
  /\ UNCHANGED <<orders, uiPc, uiLeft, blockCache, exPc, snapshot, reads, batches,
                 task, seen, execDeleted, failedTicks>>
  /\ UNCHANGED rvars

\* an await inside the withSigner task throws: the signer is released, the .catch
\* logs it and execute returns
LqThrow ==
  /\ lq.pc \in {"estimate", "gasPrice", "submit", "wait"}
  /\ pool' = Release(pool, lq.signer)
  /\ LqReturn("failed")
  /\ UNCHANGED <<positions, blockTipTimestamp, assetPrice, piLeft, lp, posSeen, refreshed>>
  /\ UNCHANGED <<waiters, metrics>>
  /\ UNCHANGED <<orders, uiPc, uiLeft, blockCache, exPc, snapshot, reads, batches,
                 task, seen, execDeleted, failedTicks>>
  /\ UNCHANGED rvars

(***************************************************************************)
(* LiquidationKeeper.liquidatePosition                                      *)
(***************************************************************************)
\* liquidatePosition's position (pc) and locals: account, canLiquidateOrder,
\* isFlaggedOrder, the signer leased, gasEstimation, gasPrice, flagTx and
\* liquidateTx; target, the value of this.positions[account] the assignment to
\* .liqPrice evaluated before awaiting liquidationPrice ("undefined", the entry
\* the index still holds, or an entry the index has replaced or deleted since);
\* and, as history, how the call ended (outcome)
NoLp == [pc |-> "idle", account |-> "", canLiquidateOrder |-> FALSE,
         isFlaggedOrder |-> FALSE, target |-> "undefined", signer |-> 0,
         gasEstimation |-> 0, gasPrice |-> 0,
         flagTx |-> NoTx, liquidateTx |-> NoTx, outcome |-> "none"]

\* parseFloat(utils.formatUnits(price))
FormatUnits(price) == price \div UNIT

\* the call is over: its locals are gone
LpDone(how) == [NoLp EXCEPT !.pc = "done", !.account = lp.account, !.outcome = how]

lpFrame ==
  /\ UNCHANGED <<blockTipTimestamp, assetPrice, piLeft, lq, posSeen>>
  /\ UNCHANGED <<orders, uiPc, uiLeft, blockCache, exPc, snapshot, reads, batches,
                 task, seen, execDeleted, failedTicks>>
  /\ UNCHANGED rvars

\* liquidatePosition(account) is called; it awaits this.market.canLiquidate(account)
LpCall(account) ==
  /\ lp.pc \in {"idle", "done"}
  /\ lp' = [NoLp EXCEPT !.pc = "canLiquidate", !.account = account]
  /\ metrics' = NoMetrics
  /\ UNCHANGED <<positions, refreshed, nonces, pool, waiters>>
  /\ lpFrame

\* canLiquidate resolves; the call awaits this.market.isFlagged(account)
LpCanLiquidate(canLiquidateOrder) ==
  /\ lp.pc = "canLiquidate"
  /\ lp' = [lp EXCEPT !.pc = "isFlagged", !.canLiquidateOrder = canLiquidateOrder]
  /\ UNCHANGED <<positions, refreshed, nonces, pool, waiters, metrics>>
  /\ lpFrame

\* isFlagged resolves: the call evaluates this.positions[account], the target of
\* the assignment, and awaits the liquidation price; or asks for a signer to
\* liquidate, or to flag and liquidate
LpIsFlagged(isFlaggedOrder) ==
  /\ lp.pc = "isFlagged"
  /\ IF ~lp.canLiquidateOrder /\ ~isFlaggedOrder
     THEN /\ lp' = [lp EXCEPT !.pc = "liquidationPrice",
                              !.isFlaggedOrder = isFlaggedOrder,
                              !.target = IF HasPosition(positions, lp.account)
                                         THEN "indexed" ELSE "undefined"]
          /\ UNCHANGED waiters
     ELSE /\ lp' = [lp EXCEPT !.pc = "signer", !.isFlaggedOrder = isFlaggedOrder]
          /\ waiters' = Append(waiters, "liquidate")
  /\ UNCHANGED <<positions, refreshed, nonces, pool, metrics>>
  /\ lpFrame

\* the catch block: KeeperError is counted and the error thrown to the caller
LpCatch ==
  /\ lp' = LpDone("threw")
  /\ metrics' = Count(metrics, "KeeperError", TRUE)

\* LpLiquidationPrice leaving liqPriceUpdatedTimestamp as it was
LpLiquidationPriceNoTimestamp(price) ==
  /\ lp.pc = "liquidationPrice"
  /\ IF lp.target = "indexed"
     THEN /\ positions' =
               PutPosition(positions,
                           [GetPosition(positions, lp.account) EXCEPT
                              !.liqPrice = FormatUnits(price)])
          /\ refreshed' = [refreshed EXCEPT ![lp.account] = "read"]
          /\ lp' = LpDone("refreshed")
          /\ UNCHANGED metrics
     ELSE IF lp.target = "replaced" /\ HasPosition(positions, lp.account)
     THEN /\ lp' = LpDone("refreshed")
          /\ UNCHANGED <<positions, refreshed, metrics>>
     ELSE /\ LpCatch
          /\ UNCHANGED <<positions, refreshed>>
  /\ UNCHANGED <<nonces, pool, waiters>>
  /\ lpFrame

\* LpLiquidationPrice leaving liqPrice as it was
LpLiquidationPriceKeepsPrice(price) ==
  /\ lp.pc = "liquidationPrice"
  /\ IF lp.target = "indexed"
     THEN /\ positions' =
               PutPosition(positions,
                           [GetPosition(positions, lp.account) EXCEPT
                              !.liqPriceUpdatedTimestamp = blockTipTimestamp])
          /\ refreshed' = [refreshed EXCEPT ![lp.account] = "read"]
          /\ lp' = LpDone("refreshed")
          /\ UNCHANGED metrics
     ELSE IF lp.target = "replaced" /\ HasPosition(positions, lp.account)
     THEN /\ positions' =
               PutPosition(positions,
                           [GetPosition(positions, lp.account) EXCEPT
                              !.liqPriceUpdatedTimestamp = blockTipTimestamp])
          /\ lp' = LpDone("refreshed")
          /\ UNCHANGED <<refreshed, metrics>>
     ELSE /\ LpCatch
          /\ UNCHANGED <<positions, refreshed>>
  /\ UNCHANGED <<nonces, pool, waiters>>
  /\ lpFrame

\* liquidationPrice resolves. liqPrice is written to the object the assignment
\* evaluated before the await: the index's entry, or an object the index no longer
\* holds (the write is then not seen in the index), or undefined (TypeError).
\* liqPriceUpdatedTimestamp is written to this.positions[account] read anew, which
\* throws when the account is not in the index
LpLiquidationPrice(price) ==
  /\ lp.pc = "liquidationPrice"
  /\ IF lp.target = "indexed"
     THEN /\ positions' =
               PutPosition(positions,
                           [GetPosition(positions, lp.account) EXCEPT
                              !.liqPrice = FormatUnits(price),
                              !.liqPriceUpdatedTimestamp = blockTipTimestamp])
          /\ refreshed' = [refreshed EXCEPT ![lp.account] = "read"]
          /\ lp' = LpDone("refreshed")
          /\ UNCHANGED metrics
     ELSE IF lp.target = "replaced" /\ HasPosition(positions, lp.account)
     THEN /\ positions' =
               PutPosition(positions,
                           [GetPosition(positions, lp.account) EXCEPT
                              !.liqPriceUpdatedTimestamp = blockTipTimestamp])
          /\ lp' = LpDone("refreshed")
          /\ UNCHANGED <<refreshed, metrics>>
     ELSE /\ LpCatch
          /\ UNCHANGED <<positions, refreshed>>
  /\ UNCHANGED <<nonces, pool, waiters>>
  /\ lpFrame

\* canLiquidate, isFlagged or liquidationPrice throws: the catch block runs
LpReadFail ==
  /\ lp.pc \in {"canLiquidate", "isFlagged", "liquidationPrice"}
  /\ LpCatch
  /\ refreshed' = [a \in PositionAccounts |->
                    IF a = lp.account /\ lp.pc = "liquidationPrice"
                       /\ refreshed[a] = "never"
                    THEN "failed" ELSE refreshed[a]]
  /\ UNCHANGED <<positions, nonces, pool, waiters>>
  /\ lpFrame

\* withSigner hands the task a signer; the task awaits estimateGas
LpSigner ==
  /\ lp.pc = "signer"
  /\ waiters # <<>>
  /\ NextWaiter(waiters) = "liquidate"
  /\ \E s \in pool :
       /\ pool' = pool \ {s}
       /\ lp' = [lp EXCEPT !.pc = "estimate", !.signer = s]
  /\ waiters' = Tail(waiters)
  /\ UNCHANGED <<positions, refreshed, metrics>>
  /\ lpFrame

\* withSigner rejects: the .catch logs it and the call returns
LpSignerFail ==
  /\ lp.pc = "signer"
  /\ waiters' = SelectSeq(waiters, LAMBDA w : w # "liquidate")
  /\ lp' = LpDone("failed")
  /\ UNCHANGED <<positions, refreshed, nonces, pool, metrics>>
  /\ lpFrame

\* estimateGas.liquidatePosition or estimateGas.flagPosition resolves
LpEstimate(gasEstimation) ==
  /\ lp.pc = "estimate"
  /\ lp' = [lp EXCEPT !.pc = "gasPrice", !.gasEstimation = gasEstimation]
  /\ UNCHANGED <<positions, refreshed, nonces, pool, waiters, metrics>>
  /\ lpFrame

\* this.provider.getGasPrice() resolves; the first transaction is called
LpGasPrice(gasPrice) ==
  /\ lp.pc = "gasPrice"
  /\ lp' = [lp EXCEPT !.pc = "submit", !.gasPrice = gasPrice * 2]
  /\ UNCHANGED <<positions, refreshed, nonces, pool, waiters, metrics>>
  /\ lpFrame

\* liquidatePosition(account, gasOptions) of a flagged position, or
\* flagPosition(account, gasOptions), resolves with the submitted transaction
LpSubmit ==
  /\ lp.pc = "submit"
  /\ LET tx == [from |-> lp.signer, gasLimit |-> GasLimit(lp.gasEstimation),
                gasPrice |-> lp.gasPrice]
     IN lp' = IF lp.isFlaggedOrder
              THEN [lp EXCEPT !.pc = "waitLiquidate", !.liquidateTx = tx]
              ELSE [lp EXCEPT !.pc = "waitFlag", !.flagTx = tx]
  /\ UNCHANGED <<positions, refreshed, pool, waiters, metrics>>
  /\ lpFrame

\* waitTx(flagTx) resolves; liquidatePosition(account) is called
LpWaitFlag ==
  /\ lp.pc = "waitFlag"
  /\ lp' = [lp EXCEPT !.pc = "submitLiquidate"]
  /\ UNCHANGED <<positions, refreshed, nonces, pool, waiters, metrics>>
  /\ lpFrame

\* liquidatePosition(account), called with the account alone after the flag,
\* resolves with the submitted transaction
LpSubmitLiquidate ==
  /\ lp.pc = "submitLiquidate"
  /\ lp' = [lp EXCEPT !.pc = "waitLiquidate",
                      !.liquidateTx = [from |-> lp.signer, gasLimit |-> NoOverride,
                                       gasPrice |-> NoOverride]]
  /\ UNCHANGED <<positions, refreshed, pool, waiters, metrics>>
  /\ lpFrame

\* waitTx(liquidateTx) resolves: PositionLiquidated is counted, the signer released
LpWaitLiquidate ==
  /\ lp.pc = "waitLiquidate"
  /\ pool' = Release(pool, lp.signer)
  /\ lp' = LpDone("liquidated")
  /\ metrics' = Count(metrics, "PositionLiquidated", TRUE)
  /\ UNCHANGED <<positions, refreshed, waiters>>
  /\ lpFrame

\* an await inside the withSigner task throws: the signer is released, the .catch
\* logs it and the call returns
LpThrow ==
  /\ lp.pc \in {"estimate", "gasPrice", "submit", "waitFlag", "submitLiquidate",
                "waitLiquidate"}
  /\ pool' = Release(pool, lp.signer)
  /\ lp' = LpDone("failed")
  /\ UNCHANGED <<positions, refreshed, waiters, metrics>>
  /\ lpFrame

(***************************************************************************)
(* Specifications                                                           *)
(***************************************************************************)
InitLiquidation ==
  /\ positions = <<>>
  /\ blockTipTimestamp = 0
  /\ assetPrice = 0
  /\ piLeft = 0
  /\ lq = NoLq
  /\ lp = NoLp
  /\ posSeen = [a \in PositionAccounts |-> "none"]
  /\ refreshed = [a \in PositionAccounts |-> "never"]

\* nothing is replayed
NoArgs == [mode |-> "none"]
NoReturned == [pass |-> 0]
InitReplay == args = NoArgs /\ returned = NoReturned

\* both keepers as constructed, the signer pool full
Init == InitDelayed /\ InitLiquidation /\ nonces = NoNonces /\ InitReplay

\* the distributor's tick: updateIndex, then execute, one after the other
UpdateIndexSerial ==
  \E n \in 0..MaxBatchLen : exPc = "idle" /\ UpdateIndexCall(n) /\ UNCHANGED returned

\* updateIndex called whatever execute is doing
UpdateIndexAnyTime ==
  \E n \in 0..MaxBatchLen : UpdateIndexCall(n) /\ UNCHANGED returned

UpdateIndexStep ==
  \E evt \in Events, fetched \in BlockTimes \cup {NoBlock} :
     UpdateIndexEvent(evt, fetched) /\ UNCHANGED returned

ExecuteStart == uiPc = "idle" /\ ExecuteCall

ExecuteReadStep ==
  \E currentRoundId \in RoundReads, timestamp \in TimeReads :
     ExecuteRead(currentRoundId, timestamp)

\* the steps of the executeOrder tasks, the signers' nonces left aside
TaskStep ==
  \E a \in Accounts :
     \/ TaskSigner(a) /\ UNCHANGED nonces
     \/ TaskSignerFail(a)
     \/ \E exists \in BOOLEAN : TaskRead(a, exists) /\ UNCHANGED nonces
     \/ \E stale \in BOOLEAN : TaskThrow(a, stale) /\ UNCHANGED nonces
     \/ \E gasEstimation \in GasEstimates : TaskEstimate(a, gasEstimation)
     \/ TaskSubmit(a) /\ UNCHANGED nonces
     \/ TaskWait(a) /\ UNCHANGED nonces

ExecuteSteps ==
  \/ ExecuteStart
  \/ ExecuteReadStep
  \/ ExecuteReadFail
  \/ TaskStep
  \/ BatchDone
  \/ DelayDone

Next == UpdateIndexSerial \/ UpdateIndexStep \/ ExecuteSteps

Spec == Init /\ [][Next]_vars

\* the events fed to the keeper where updateIndex may overlap execute
RaceEvents ==
  {e \in Events : /\ e.hasArgs /\ ~e.isOffchain
                  /\ e.event # "PositionModified"
                  /\ e.intentionTime # NoTime => e.targetRoundId = 1
                  /\ e.intentionTime = NoTime => e.event = "DelayedOrderRemoved"
                  /\ e.blockNumber = 7}

UpdateIndexRaceStep ==
  \E evt \in RaceEvents : UpdateIndexEvent(evt, NoBlock) /\ UNCHANGED returned

NextInterleaved == UpdateIndexAnyTime \/ UpdateIndexRaceStep \/ ExecuteSteps

SpecInterleaved == Init /\ [][NextInterleaved]_vars

(***************************************************************************)
(* LiquidationKeeper under the distributor's ticks                          *)
(***************************************************************************)
\* the distributor's tick: updateIndex, then execute, one after the other
LqUpdateIndexSerial ==
  \E n \in 0..MaxBatchLen, blockTimestamp \in TipTimes \cup {NoTip},
     price \in AssetPrices \cup {NoPrice} :
       lq.pc = "idle" /\ LqUpdateIndexCall(n, blockTimestamp, price) /\ UNCHANGED returned

LqUpdateIndexStep ==
  \E e \in PositionEvents : LqUpdateIndexEvent(e) /\ UNCHANGED returned

LqExecuteStart == piLeft = 0 /\ LqExecuteCall

\* what the dry run can report: the flagPosition calls that revert
Reverts == SUBSET EventAccounts

\* the steps of execute, the signers' nonces left aside
LqExecuteSteps ==
  \/ LqExecuteStart
  \/ \E reverts \in Reverts : LqDryRun(reverts)
  \/ LqDryRunFail
  \/ LqSigner /\ UNCHANGED nonces
  \/ LqSignerFail
  \/ \E gasEstimation \in GasEstimates : LqEstimate(gasEstimation)
  \/ \E gasPrice \in GasPrices : LqGasPrice(gasPrice)
  \/ LqSubmit /\ UNCHANGED nonces
  \/ LqWait /\ UNCHANGED nonces
  \/ LqThrow /\ UNCHANGED nonces

NextLiquidation == LqUpdateIndexSerial \/ LqUpdateIndexStep \/ LqExecuteSteps

SpecLiquidation == Init /\ [][NextLiquidation]_vars

(***************************************************************************)
(* liquidatePosition applied to the indexed accounts                        *)
(***************************************************************************)
\* the events fed to the index liquidatePosition is applied to
LpEvents ==
  {e \in PositionEvents : /\ e.hasArgs
                          /\ e.event \in {"PositionModified", "PositionFlagged"}
                          /\ e.size \in {0, 10 * UNIT}
                          /\ e.size = 0 <=> e.margin = 0}

LpUpdateIndexSerial ==
  \E n \in 0..MaxBatchLen, blockTimestamp \in TipTimes \cup {NoTip} :
       lq.pc = "idle" /\ lp.pc \in {"idle", "done"}
       /\ LqUpdateIndexCall(n, blockTimestamp, NoPrice)
       /\ UNCHANGED returned

LpUpdateIndexStep == \E e \in LpEvents : LqUpdateIndexEvent(e) /\ UNCHANGED returned

LpStart == \E account \in PositionKeys(positions) : piLeft = 0 /\ LpCall(account)

LpSteps ==
  \/ LpStart
  \/ \E canLiquidateOrder \in BOOLEAN : LpCanLiquidate(canLiquidateOrder)
  \/ \E isFlaggedOrder \in BOOLEAN : LpIsFlagged(isFlaggedOrder)
  \/ \E price \in LiqPriceReads : LpLiquidationPrice(price)
  \/ LpReadFail
  \/ LpSigner /\ UNCHANGED nonces
  \/ LpSignerFail
  \/ \E gasEstimation \in GasEstimates : LpEstimate(gasEstimation)
  \/ \E gasPrice \in GasPrices : LpGasPrice(gasPrice)
  \/ LpSubmit /\ UNCHANGED nonces
  \/ LpWaitFlag
  \/ LpSubmitLiquidate /\ UNCHANGED nonces
  \/ LpWaitLiquidate /\ UNCHANGED nonces
  \/ LpThrow /\ UNCHANGED nonces

NextLiquidatePosition == LpUpdateIndexSerial \/ LpUpdateIndexStep \/ LpSteps

SpecLiquidatePosition == Init /\ [][NextLiquidatePosition]_vars

(***************************************************************************)
(* execute over an index of more positions than one page holds              *)
(***************************************************************************)
\* an open position as PositionModified indexes it
OpenPosition(a) == [id |-> 1, account |-> a, size |-> PositionSize(10 * UNIT),
                    leverage |-> PositionLeverage(10 * UNIT, 50 * UNIT, 100 * UNIT),
                    liqPrice |-> UnknownLiqPrice, liqPriceUpdatedTimestamp |-> 0]

\* the index after PositionModified events for the first n paged accounts
InitPaged ==
  /\ InitDelayed
  /\ nonces = NoNonces
  /\ InitReplay
  /\ \E n \in 0..MaxPaged :
       /\ positions = [i \in 1..n |-> OpenPosition(PagedNames[i])]
       /\ posSeen = [a \in PositionAccounts |->
                      IF \E i \in 1..n : PagedNames[i] = a THEN "open" ELSE "none"]
  /\ blockTipTimestamp = 0
  /\ assetPrice = 0
  /\ piLeft = 0
  /\ lq = NoLq
  /\ lp = NoLp
  /\ refreshed = [a \in PositionAccounts |-> "never"]

\* what the dry run can report over the pages: reverts among the first two
\* accounts and the two around the end of the first page
PagedReverts == SUBSET {PagedNames[1], PagedNames[2], PagedNames[pageSize],
                        PagedNames[pageSize + 1]}

LqPagedSteps ==
  \/ LqExecuteStart
  \/ \E reverts \in PagedReverts : LqDryRun(reverts)
  \/ LqDryRunFail
  \/ LqSigner /\ UNCHANGED nonces
  \/ LqSignerFail
  \/ \E gasEstimation \in GasEstimates : LqEstimate(gasEstimation)
  \/ \E gasPrice \in GasPrices : LqGasPrice(gasPrice)
  \/ LqSubmit /\ UNCHANGED nonces
  \/ LqWait /\ UNCHANGED nonces
  \/ LqThrow /\ UNCHANGED nonces

SpecPaged == InitPaged /\ [][LqPagedSteps]_vars

(***************************************************************************)
(* The executes of both keepers on one signer pool, nonces followed         *)
(***************************************************************************)
\* the indexes after DelayedOrderSubmitted events for three accounts and a
\* PositionModified for one
InitShared ==
  /\ orders = [i \in 1..3 |->
                [account |-> <<"0xA", "0xB", "0xC">>[i], targetRoundId |-> 1,
                 executableAtTime |-> 2, intentionTime |-> 1, executionFailures |-> 0]]
  /\ seen = [a \in Accounts |-> "submitted"]
  /\ uiPc = "idle"
  /\ uiLeft = 0
  /\ blockCache = [b \in BlockNumbers |-> NoBlock]
  /\ exPc = "idle"
  /\ snapshot = <<>>
  /\ reads = NoReads
  /\ batches = <<>>
  /\ task = [a \in Accounts |-> NoTask]
  /\ pool = Signers
  /\ waiters = <<>>
  /\ metrics = NoMetrics
  /\ execDeleted = [a \in Accounts |-> FALSE]
  /\ failedTicks = [a \in Accounts |-> 0]
  /\ nonces = NoNonces
  /\ InitReplay
  /\ positions = <<OpenPosition("0xA")>>
  /\ posSeen = [a \in PositionAccounts |-> IF a = "0xA" THEN "open" ELSE "none"]
  /\ blockTipTimestamp = 0
  /\ assetPrice = 0
  /\ piLeft = 0
  /\ lq = NoLq
  /\ lp = NoLp
  /\ refreshed = [a \in PositionAccounts |-> "never"]

\* the reads of execute: the round and the time that make the three orders ready,
\* or the round before
ExecuteReadShared ==
  \E currentRoundId \in {0, 1} : ExecuteRead(currentRoundId, 1)

\* the steps of the executeOrder tasks with the pool's bookkeeping of nonces
TaskStepShared ==
  \E a \in Accounts :
     \/ TaskSigner(a) /\ nonces' = Acquire(nonces, task'[a].signer, a)
     \/ TaskSignerFail(a)
     \/ \E exists \in BOOLEAN :
          /\ TaskRead(a, exists)
          /\ nonces' = IF exists THEN nonces ELSE ReleaseOk(nonces, task[a].signer, a)
     \/ \E stale \in BOOLEAN :
          TaskThrow(a, stale) /\ nonces' = ReleaseFail(nonces, task[a].signer, a)
     \/ \E gasEstimation \in GasEstimates : TaskEstimate(a, gasEstimation)
     \/ /\ task[a].pc = "submit"
        /\ nonces.accepted[task[a].signer] < MaxNonce
        /\ TaskSubmit(a)
        /\ nonces' = Accept(nonces, task[a].signer, a)
     \/ TaskWait(a) /\ nonces' = ReleaseOk(nonces, task[a].signer, a)

\* the steps of LiquidationKeeper.execute with the pool's bookkeeping of nonces
LqStepShared ==
  \/ LqExecuteStart
  \/ \E reverts \in Reverts : LqDryRun(reverts)
  \/ LqDryRunFail
  \/ LqSigner /\ nonces' = Acquire(nonces, lq'.signer, "multicall")
  \/ LqSignerFail
  \/ \E gasEstimation \in GasEstimates : LqEstimate(gasEstimation)
  \/ \E gasPrice \in GasPrices : LqGasPrice(gasPrice)
  \/ /\ lq.pc = "submit"
     /\ nonces.accepted[lq.signer] < MaxNonce
     /\ LqSubmit
     /\ nonces' = Accept(nonces, lq.signer, "multicall")
  \/ LqWait /\ nonces' = ReleaseOk(nonces, lq.signer, "multicall")
  \/ LqThrow /\ nonces' = ReleaseFail(nonces, lq.signer, "multicall")

NextShared ==
  \/ ExecuteStart
  \/ ExecuteReadShared
  \/ ExecuteReadFail
  \/ TaskStepShared
  \/ BatchDone
  \/ DelayDone
  \/ LqStepShared

SpecShared == InitShared /\ [][NextShared]_vars

(***************************************************************************)
(* liquidationGroups applied to lists of positions                          *)
(***************************************************************************)
\* a position with an unknown liquidation price, one with a liquidation price
\* close to an asset price of 100, one with a far liquidation price
GroupPositions(a) ==
  [id : {1}, account : {a}, size : {10}, leverage : {1, 2},
   liqPrice : {UnknownLiqPrice}, liqPriceUpdatedTimestamp : {0}]
  \cup [id : {1}, account : {a}, size : {10}, leverage : {1, 2},
        liqPrice : {96, 99, 104}, liqPriceUpdatedTimestamp : {100}]
  \cup [id : {1}, account : {a}, size : {10}, leverage : {1},
        liqPrice : {50}, liqPriceUpdatedTimestamp : {0, 100, 9000}]

\* the lists of n positions of distinct accounts
RECURSIVE PositionLists(_)
PositionLists(n) ==
  IF n = 0 THEN {<<>>}
  ELSE {Append(ps, p) : ps \in PositionLists(n - 1), p \in GroupPositions(PagedNames[n])}

\* the keeper holds an asset price (0 before the first one is given) and a block
\* tip; liquidationGroups is about to be handed posArr
InitGroups ==
  /\ InitDelayed
  /\ nonces = NoNonces
  /\ \E n \in 0..MaxGroupLen : positions \in PositionLists(n)
  /\ posSeen = [a \in PositionAccounts |->
                 IF \E i \in 1..Len(positions) : positions[i].account = a
                 THEN "open" ELSE "none"]
  /\ blockTipTimestamp = 30000
  /\ assetPrice \in AssetPrices \cup {NoPrice}
  /\ piLeft = 0
  /\ lq = NoLq
  /\ lp = NoLp
  /\ refreshed = [a \in PositionAccounts |-> "never"]
  /\ args = [mode |-> "groups"]
  /\ returned = NoReturned

\* this.liquidationGroups(posArr) returns
GroupsCall ==
  /\ args.mode = "groups"
  /\ returned.pass = 0
  /\ returned' = [pass |-> 1,
                  groups |-> liquidationGroups(positions, assetPrice, blockTipTimestamp)]
  /\ UNCHANGED <<args, nonces, pool, waiters, metrics>>
  /\ UNCHANGED <<positions, blockTipTimestamp, assetPrice, piLeft, lq, lp, posSeen,
                 refreshed>>
  /\ UNCHANGED <<orders, uiPc, uiLeft, blockCache, exPc, snapshot, reads, batches,
                 task, seen, execDeleted, failedTicks>>

SpecGroups == InitGroups /\ [][GroupsCall]_vars

(***************************************************************************)
(* One event sequence fed to updateIndex twice in a row                     *)
(***************************************************************************)
\* the order events replayed; block is what the event's getBlock() resolves with
\* (NoBlock: it throws)
ReplayOrderEvents ==
  [event : {"DelayedOrderSubmitted"}, hasArgs : {TRUE}, isOffchain : {FALSE},
   account : EventAccounts, targetRoundId : {1}, executableAtTime : {2},
   intentionTime : {NoTime}, blockNumber : BlockNumbers,
   block : BlockTimes \cup {NoBlock}]
  \cup [event : {"DelayedOrderSubmitted"}, hasArgs : {TRUE}, isOffchain : {FALSE},
        account : EventAccounts, targetRoundId : {1}, executableAtTime : {2},
        intentionTime : {1}, blockNumber : {7}, block : {NoBlock}]
  \cup [event : {"DelayedOrderRemoved"}, hasArgs : {TRUE}, isOffchain : {FALSE},
        account : EventAccounts, targetRoundId : {0}, executableAtTime : {0},
        intentionTime : {NoTime}, blockNumber : {7}, block : {NoBlock}]
  \cup [event : {"DelayedOrderRemoved"}, hasArgs : {FALSE}, isOffchain : {FALSE},
        account : {"0xA"}, targetRoundId : {0}, executableAtTime : {0},
        intentionTime : {NoTime}, blockNumber : {7}, block : {NoBlock}]
  \cup [event : {"DelayedOrderSubmitted"}, hasArgs : {TRUE}, isOffchain : {TRUE},
        account : EventAccounts, targetRoundId : {1}, executableAtTime : {2},
        intentionTime : {NoTime}, blockNumber : {7}, block : BlockTimes]
  \cup [event : {"DelayedOrderRemoved"}, hasArgs : {TRUE}, isOffchain : {TRUE},
        account : {"0xB"}, targetRoundId : {0}, executableAtTime : {0},
        intentionTime : {NoTime}, blockNumber : {7}, block : {NoBlock}]

\* the position events replayed
ReplayPositionEvents ==
  {e \in PositionEvents :
     /\ e.event \in {"PositionModified", "PositionLiquidated", "FundingRecomputed"}
     /\ e.size \in {0, 10 * UNIT}
     /\ e.size = 0 <=> e.margin = 0
     /\ ~e.hasArgs => e.event = "FundingRecomputed"
     /\ e.event = "PositionLiquidated" => e.account = "0xA"}

\* the lists of n members of S
RECURSIVE ListsOf(_, _)
ListsOf(S, n) ==
  IF n = 0 THEN {<<>>} ELSE {Append(l, x) : l \in ListsOf(S, n - 1), x \in S}

\* nothing replayed yet
NoPasses == [pass |-> 0, once |-> <<>>, tipOnce |-> 0,
             fetches |-> [b \in BlockNumbers |-> 0]]

\* DelayedOrdersKeeper with an index that is empty or holds an order of 0xB that
\* has failed once, about to be fed a sequence of events
InitReplayOrders ==
  /\ \E had \in BOOLEAN :
       /\ orders = IF had
                   THEN <<[account |-> "0xB", targetRoundId |-> 1,
                           executableAtTime |-> 2, intentionTime |-> 1,
                           executionFailures |-> 1]>>
                   ELSE <<>>
       /\ seen = [a \in Accounts |-> IF had /\ a = "0xB" THEN "submitted" ELSE "none"]
       /\ failedTicks = [a \in Accounts |-> IF had /\ a = "0xB" THEN 1 ELSE 0]
  /\ uiPc = "idle"
  /\ uiLeft = 0
  /\ blockCache = [b \in BlockNumbers |-> NoBlock]
  /\ exPc = "idle"
  /\ snapshot = <<>>
  /\ reads = NoReads
  /\ batches = <<>>
  /\ task = [a \in Accounts |-> NoTask]
  /\ pool = Signers
  /\ waiters = <<>>
  /\ metrics = NoMetrics
  /\ execDeleted = [a \in Accounts |-> FALSE]
  /\ nonces = NoNonces
  /\ InitLiquidation
  /\ \E n \in 1..MaxReplayLen :
       \E events \in ListsOf(ReplayOrderEvents, n) :
          args = [mode |-> "orders", events |-> events, block |-> NoTip]
  /\ returned = NoPasses

\* LiquidationKeeper with an index that is empty or holds a position of 0xB whose
\* liquidation price is known, about to be fed a sequence of events
InitReplayPositions ==
  /\ InitDelayed
  /\ nonces = NoNonces
  /\ \E had \in BOOLEAN :
       /\ positions = IF had
                      THEN <<[OpenPosition("0xB") EXCEPT
                                !.liqPrice = 99, !.liqPriceUpdatedTimestamp = 30000]>>
                      ELSE <<>>
       /\ posSeen = [a \in PositionAccounts |->
                      IF had /\ a = "0xB" THEN "open" ELSE "none"]
       /\ refreshed = [a \in PositionAccounts |->
                        IF had /\ a = "0xB" THEN "read" ELSE "never"]
  /\ blockTipTimestamp = 0
  /\ assetPrice = 0
  /\ piLeft = 0
  /\ lq = NoLq
  /\ lp = NoLp
  /\ \E n \in 1..MaxReplayLen, block \in {NoTip, 45000} :
       \E events \in ListsOf(ReplayPositionEvents, n) :
          args = [mode |-> "positions", events |-> events, block |-> block]
  /\ returned = NoPasses

\* the event the loop of updateIndex is at
ReplayEvent(left) == args.events[Len(args.events) - left + 1]

\* the pass is over: what it left behind is remembered after the first one
PassDone(index, tip) ==
  [returned EXCEPT !.pass = @ + 1,
                   !.once = IF returned.pass = 0 THEN index ELSE @,
                   !.tipOnce = IF returned.pass = 0 THEN tip ELSE @]

\* updateIndex(events) is called on the DelayedOrdersKeeper, a first and a second time
ReplayOrdersCall ==
  /\ args.mode = "orders"
  /\ returned.pass < 2
  /\ UpdateIndexCall(Len(args.events))
  /\ returned' = [returned EXCEPT !.fetches = [b \in BlockNumbers |-> 0]]

\* the loop of updateIndex takes the next event of the sequence; a getBlock() that
\* is awaited and resolves is counted
ReplayOrdersEvent ==
  /\ args.mode = "orders"
  /\ uiLeft > 0
  /\ LET evt == ReplayEvent(uiLeft)
         fetch == NeedsBlock(evt, blockCache) /\ evt.block # NoBlock
     IN /\ UpdateIndexEvent(evt, evt.block)
        /\ returned' =
             [(IF uiLeft = 1 THEN PassDone(orders', 0) ELSE returned)
                EXCEPT !.fetches[evt.blockNumber] = IF fetch THEN @ + 1 ELSE @]

\* updateIndex(events, block) is called on the LiquidationKeeper, a first and a
\* second time
ReplayPositionsCall ==
  /\ args.mode = "positions"
  /\ returned.pass < 2
  /\ LqUpdateIndexCall(Len(args.events), args.block, NoPrice)
  /\ UNCHANGED returned

\* events.forEach takes the next event of the sequence
ReplayPositionsEvent ==
  /\ args.mode = "positions"
  /\ piLeft > 0
  /\ LqUpdateIndexEvent(ReplayEvent(piLeft))
  /\ returned' = IF piLeft = 1 THEN PassDone(positions', blockTipTimestamp')
                 ELSE returned

NextReplay ==
  \/ ReplayOrdersCall
  \/ ReplayOrdersEvent
  \/ ReplayPositionsCall
  \/ ReplayPositionsEvent

SpecReplay == (InitReplayOrders \/ InitReplayPositions) /\ [][NextReplay]_vars

(***************************************************************************)
(* hydrateIndex on an index in use, and before a replay                     *)
(***************************************************************************)
\* the event history up to the snapshot's block
HistoryEvents ==
  {e \in PositionEvents :
     /\ e.hasArgs
     /\ \/ /\ e.event = "PositionModified" /\ e.account = "0xA"
           /\ <<e.size, e.margin>> \in {<<10 * UNIT, 100 * UNIT>>,
                                        <<-20 * UNIT, 100 * UNIT>>, <<0, 0>>}
        \/ /\ e.event = "PositionModified" /\ e.account = "0xB"
           /\ <<e.size, e.margin>> \in {<<10 * UNIT, 100 * UNIT>>, <<0, 100 * UNIT>>}
        \/ e.event = "PositionLiquidated" /\ e.account = "0xA"
        \/ e.event = "PositionFlagged" /\ e.account = "0xB"
        \/ e.event = "FundingRecomputed" /\ e.timestamp = 30000}

\* the events of the blocks after the snapshot's
LaterEvents ==
  {e \in HistoryEvents :
     \/ e.event = "PositionModified" /\ e.size # 10 * UNIT
     \/ e.event \in {"PositionLiquidated", "FundingRecomputed"}}

\* the lists of at most n members of S
RECURSIVE ListsUpTo(_, _)
ListsUpTo(S, n) == IF n = 0 THEN {<<>>} ELSE ListsOf(S, n) \cup ListsUpTo(S, n - 1)

\* the event of the history that last wrote or deleted the index's entry of a
\* (0: none)
LastRewrite(history, a) ==
  LET at == {i \in 1..Len(history) :
               /\ history[i].hasArgs
               /\ history[i].account = a
               /\ history[i].event \in {"PositionModified", "PositionLiquidated",
                                        "PositionFlagged"}}
  IN IF at = {} THEN 0 ELSE CHOOSE i \in at : \A j \in at : j <= i

\* the event of the history that last changed the chain's position of a (0: none):
\* PositionModified sets its size and margin and PositionLiquidated closes it;
\* liquidation is flag then liquidate, so that PositionFlagged leaves it open
LastChange(history, a) ==
  LET at == {i \in 1..Len(history) :
               /\ history[i].hasArgs
               /\ history[i].account = a
               /\ history[i].event \in {"PositionModified", "PositionLiquidated"}}
  IN IF at = {} THEN 0 ELSE CHOOSE i \in at : \A j \in at : j <= i

\* the chain holds an open position for a once the history has happened: one of
\* size other than 0
ChainOpen(history, a) ==
  /\ LastChange(history, a) # 0
  /\ history[LastChange(history, a)].event = "PositionModified"
  /\ Abs(history[LastChange(history, a)].size) > 0

\* the Position of the chain's position that e modified: size in natural units,
\* leverage |size| * lastPrice / (margin * UNIT), liqPrice unknown
ChainPosition(e) ==
  [id |-> e.id, account |-> e.account, size |-> e.size \div UNIT,
   leverage |-> (Abs(e.size) * e.lastPrice) \div (e.margin * UNIT),
   liqPrice |-> UnknownLiqPrice, liqPriceUpdatedTimestamp |-> 0]

\* the accounts with an open position on the chain once the history has happened
ChainAccounts(history) == {a \in EventAccounts : ChainOpen(history, a)}

\* the snapshot of the chain taken after the history: its open positions
ChainSnapshot(history) ==
  LET pos(a) == ChainPosition(history[LastChange(history, a)])
      has == ChainAccounts(history)
  IN (IF "0xA" \in has THEN <<pos("0xA")>> ELSE <<>>)
     \o (IF "0xB" \in has THEN <<pos("0xB")>> ELSE <<>>)

\* what the index may hold for an account when it is hydrated: nothing, an entry
\* never refreshed, or an entry with a liquidation price read
MemoryEntries(a) ==
  {<<>>,
   <<[id |-> 1, account |-> a, size |-> 10, leverage |-> 5,
      liqPrice |-> -1, liqPriceUpdatedTimestamp |-> 0]>>,
   <<[id |-> 1, account |-> a, size |-> 10, leverage |-> 5,
      liqPrice |-> 99, liqPriceUpdatedTimestamp |-> 30000]>>}

\* what a snapshot may hold for an account
SnapshotEntries(a) ==
  {<<>>,
   <<[id |-> 1, account |-> a, size |-> -20, leverage |-> 10,
      liqPrice |-> -1, liqPriceUpdatedTimestamp |-> 0]>>,
   <<[id |-> 1, account |-> a, size |-> -20, leverage |-> 10,
      liqPrice |-> 104, liqPriceUpdatedTimestamp |-> 45000]>>}

\* nothing hydrated yet
NoHydrate == [pass |-> 0, before |-> <<>>]

\* LiquidationKeeper about to be hydrated: with an index in use and any snapshot,
\* or with an empty index and the snapshot of the chain, events to follow
InitHydrate ==
  /\ InitDelayed
  /\ nonces = NoNonces
  /\ assetPrice = 0
  /\ piLeft = 0
  /\ lq = NoLq
  /\ lp = NoLp
  /\ blockTipTimestamp = 30000
  /\ returned = NoHydrate
  /\ \/ /\ \E ma \in MemoryEntries("0xA"), mb \in MemoryEntries("0xB") :
             positions \in {ma \o mb, mb \o ma}
        /\ \E sa \in SnapshotEntries("0xA"), sb \in SnapshotEntries("0xB") :
             \E snap \in {sa \o sb, sb \o sa} :
                args = [mode |-> "merge", snapshot |-> snap, block |-> 45000,
                        history |-> <<>>, later |-> <<>>]
     \/ /\ positions = <<>>
        /\ \E history \in ListsUpTo(HistoryEvents, MaxHistoryLen),
              later \in ListsUpTo(LaterEvents, MaxHistoryLen) :
             args = [mode |-> "resume", snapshot |-> ChainSnapshot(history),
                     block |-> 45000, history |-> history, later |-> later]
  /\ posSeen = [a \in PositionAccounts |->
                 IF HasPosition(positions, a) THEN "open" ELSE "none"]
  /\ refreshed = [a \in PositionAccounts |->
                   IF HasPosition(positions, a) /\ GetPosition(positions, a).liqPrice # -1
                   THEN "read" ELSE "never"]

\* the Distributor calls hydrateIndex(snapshot, block) before the first tick
HydrateCall ==
  /\ args.mode \in {"merge", "resume"}
  /\ returned.pass = 0
  /\ LqHydrateIndex(args.snapshot, args.block)
  /\ returned' = [pass |-> 1, before |-> positions]

\* then calls updateIndex with the events of the blocks after the snapshot's
ResumeCall ==
  /\ args.mode = "resume"
  /\ returned.pass = 1
  /\ LqUpdateIndexCall(Len(args.later), NoTip, NoPrice)
  /\ returned' = [returned EXCEPT !.pass = 2]

\* events.forEach takes the next of those events
ResumeEvent ==
  /\ args.mode = "resume"
  /\ returned.pass = 2
  /\ piLeft > 0
  /\ LqUpdateIndexEvent(args.later[Len(args.later) - piLeft + 1])
  /\ UNCHANGED returned

NextHydrate ==
  \/ HydrateCall
  \/ ResumeCall
  \/ ResumeEvent

SpecHydrate == InitHydrate /\ [][NextHydrate]_vars

(***************************************************************************)
(* liquidatePosition with updateIndex and hydrateIndex called during its    *)
(* awaits                                                                   *)
(***************************************************************************)
\* updateIndex is called whatever liquidatePosition is awaiting
LpUpdateIndexRacing ==
  \E n \in 0..MaxBatchLen, blockTimestamp \in TipTimes \cup {NoTip} :
       lq.pc = "idle"
       /\ LqUpdateIndexCall(n, blockTimestamp, NoPrice)
       /\ UNCHANGED returned

\* hydrateIndex is called whatever liquidatePosition is awaiting
LpHydrateRacing ==
  \E snap \in SnapshotEntries("0xA"), blockTimestamp \in TipTimes :
       lq.pc = "idle"
       /\ LqHydrateIndex(snap, blockTimestamp)
       /\ UNCHANGED returned

\* liquidatePosition is called for an account, indexed or not
LpStartAny == \E account \in Accounts : piLeft = 0 /\ LpCall(account)

\* events.forEach awaits nothing: liquidatePosition resumes between calls only
NextLiquidatePositionInterleaved ==
  \/ LpUpdateIndexRacing
  \/ LpUpdateIndexStep
  \/ LpHydrateRacing
  \/ LpStartAny
  \/ piLeft = 0 /\ LpSteps

SpecLiquidatePositionInterleaved == Init /\ [][NextLiquidatePositionInterleaved]_vars

\* the entry liquidatePosition holds is the index's entry only while the index
\* has one for the account
LpTargetIsIndexed ==
  /\ lp.target = "indexed" => HasPosition(positions, lp.account)
  /\ lp.target # "undefined" => lp.pc = "liquidationPrice"

\* the entry was rewritten by PositionModified while liquidationPrice was awaited:
\* the price read is not in the index, the timestamp is
LpRefreshOfReplacedEntry ==
  /\ lp.pc = "done" /\ lp.outcome = "refreshed"
  /\ HasPosition(positions, lp.account)
  /\ GetPosition(positions, lp.account).liqPrice = UnknownLiqPrice
  /\ GetPosition(positions, lp.account).liqPriceUpdatedTimestamp = blockTipTimestamp
  /\ blockTipTimestamp # 0

\* the account was not indexed when liquidationPrice was awaited: the assignment
\* throws, also when the entry has been written since, and the index stays as it is
LpRefreshOfAbsentEntry ==
  [][(lp.pc = "liquidationPrice" /\ lp.target = "undefined" /\ lp'.pc = "done") =>
       /\ lp'.outcome = "threw"
       /\ metrics'.KeeperError = metrics.KeeperError + 1
       /\ positions' = positions]_vars

(***************************************************************************)
(* Properties                                                               *)
(***************************************************************************)
Quiescent == uiPc = "idle" /\ exPc = "idle"

\* the task of account a submits a transaction in this step
Submits(a) == task'[a].sent > task[a].sent

\* C1 (as claimed): between calls, an account is a key of the index if and only
\* if the last on-chain order event indexed for it is a DelayedOrderSubmitted.
C1_IndexIffLastSubmitted ==
  Quiescent => \A a \in Accounts : HasOrder(orders, a) <=> seen[a] = "submitted"

\* C1 (amended): an account is a key of the index if and only if the last
\* on-chain order event indexed for it is a DelayedOrderSubmitted and executeOrder
\* has not deleted the entry since that event.
C1_IndexIffSubmittedAndKept ==
  \A a \in Accounts :
     HasOrder(orders, a) <=> (seen[a] = "submitted" /\ ~execDeleted[a])

\* C1 witness: between calls, one order is indexed and another, last seen
\* submitted, was deleted by executeOrder.
C1_Witness ==
  /\ Quiescent
  /\ \E a, b \in Accounts :
       /\ HasOrder(orders, a) /\ seen[a] = "submitted"
       /\ ~HasOrder(orders, b) /\ seen[b] = "submitted" /\ execDeleted[b]

\* C2 (as claimed): a transaction is submitted only for an account that is a key
\* of the index at that moment, whatever updateIndex did during the awaits.
C2_SubmitsOnlyIndexed ==
  [][\A a \in Accounts : Submits(a) => HasOrder(orders, a)]_vars

\* C2 (amended): a transaction is submitted only for an account that is a key of
\* the index at that moment, unless updateIndex deleted or replaced its entry
\* while the task was awaiting.
C2_SubmitsOnlyIndexedUnlessRaced ==
  [][\A a \in Accounts : Submits(a) => (HasOrder(orders, a) \/ task[a].raced)]_vars

\* C2 witness: a transaction was submitted for an indexed account, untouched by
\* the updateIndex that is running meanwhile.
C2_Witness ==
  \E a \in Accounts :
     /\ task[a].pc = "wait" /\ task[a].sent = 1 /\ ~task[a].raced
     /\ HasOrder(orders, a)
     /\ uiPc = "indexing"

\* C3 (as claimed): every entry of the index has executionFailures <= maxExecAttempts.
C3_FailuresWithinBudget ==
  \A i \in 1..Len(orders) : orders[i].executionFailures <= maxExecAttempts

\* C4 (as claimed): once maxExecAttempts + 1 attempts on an entry have failed, the
\* entry is gone when execute returns, and no transaction is sent for it later.
C4_GoneAfterBudgetPlusOne ==
  \A a \in Accounts :
     /\ (exPc = "idle" /\ failedTicks[a] >= maxExecAttempts + 1) => ~HasOrder(orders, a)
     /\ (task[a].pc = "wait" /\ task[a].aliased) => failedTicks[a] <= maxExecAttempts

\* C5: the tasks execute starts are those of the snapshot's orders with
\* currentRoundId >= targetRoundId or timestamp >= executableAtTime, batch by batch.
C5_StartsExactlyReady ==
  LET ready == {snapshot[i].account : i \in
                  {j \in 1..Len(snapshot) :
                     \/ reads.currentRoundId >= snapshot[j].targetRoundId
                     \/ reads.timestamp >= snapshot[j].executableAtTime}}
      later == UNION {{batches[k][i] : i \in 1..Len(batches[k])} : k \in 2..Len(batches)}
      started == {a \in Accounts : task[a].pc # "idle"}
  IN IF exPc \in {"batch", "delay"}
     THEN started \cup later = ready /\ started \cap later = {}
     ELSE started = {}

\* C5 witness: of two indexed orders, the one ready by its round alone has a task,
\* the other has none.
C5_Witness ==
  /\ exPc = "batch"
  /\ Len(snapshot) = 2
  /\ \E a, b \in Accounts :
       /\ task[a].pc # "idle" /\ task[b].pc = "idle"
       /\ reads.currentRoundId >= task[a].order.targetRoundId
       /\ reads.timestamp < task[a].order.executableAtTime
       /\ HasOrder(orders, b)

\* C6: within one execute a task submits at most one transaction; a task that went
\* through submitted exactly one, and once it is confirmed the account is not in
\* the index for the rest of the call.
C6_ExecutesOnceAndRemoves ==
  \A a \in Accounts :
     /\ task[a].sent <= 1
     /\ task[a].confirmed <= task[a].sent
     /\ task[a].outcome = "executed" => task[a].sent = 1
     /\ task[a].confirmed = 1 => ~HasOrder(orders, a)
     /\ task[a].pc \in {"idle", "signer", "read", "estimate", "submit"} => task[a].sent = 0

\* C6 witness: the last batch is over, and an order ready by its round but not by
\* its time was executed, confirmed and removed.
C6_Witness ==
  /\ exPc = "delay"
  /\ Len(batches) = 1
  /\ \E a \in Accounts :
       /\ task[a].outcome = "executed" /\ task[a].sent = 1 /\ task[a].found = "nonzero"
       /\ reads.currentRoundId >= task[a].order.targetRoundId
       /\ reads.timestamp < task[a].order.executableAtTime
       /\ ~HasOrder(orders, a)

\* C7: when no account's last on-chain order event is a DelayedOrderSubmitted, the
\* index is empty, and execute neither starts a task, leases a signer nor submits.
C7_RemovedLeavesNothingToDo ==
  (\A a \in Accounts : seen[a] # "submitted") =>
     /\ orders = <<>>
     /\ exPc = "idle"
     /\ pool = Signers
     /\ \A a \in Accounts : task[a] = NoTask

\* C7 witness: a DelayedOrderSubmitted and then a DelayedOrderRemoved were indexed
\* for one account, nothing for the others.
C7_Witness ==
  /\ Quiescent
  /\ \E a \in Accounts :
       /\ seen[a] = "removed"
       /\ \A b \in Accounts \ {a} : seen[b] = "none"

\* C8: when delayedOrders returns sizeDelta == 0 the task deletes the entry, counts
\* DelayedOrderAlreadyExecuted once, submits nothing and charges no failure.
C8_GoneOnChainIsDropped ==
  [][\A a \in Accounts :
       (task[a].pc = "read" /\ task'[a].found = "zero") =>
          /\ ~HasOrder(orders', a)
          /\ metrics'.DelayedOrderAlreadyExecuted = metrics.DelayedOrderAlreadyExecuted + 1
          /\ metrics'.KeeperError = metrics.KeeperError
          /\ task'[a].pc = "done" /\ task'[a].sent = 0
          /\ task'[a].order.executionFailures = task[a].order.executionFailures
          /\ \A b \in Accounts \ {a} : GetOrder(orders', b) = GetOrder(orders, b)]_vars

\* C8 witness: a task ended on sizeDelta == 0 with the entry gone.
C8_Witness ==
  \E a \in Accounts :
     /\ task[a].found = "zero" /\ task[a].pc = "done"
     /\ metrics.DelayedOrderAlreadyExecuted >= 1
     /\ seen[a] = "submitted" /\ ~HasOrder(orders, a)

\* C9 (as claimed): when estimateGas, the submission or the confirmation fails
\* because the order is gone on-chain, the entry is removed,
\* DelayedOrderAlreadyExecuted is counted and no failure is charged.
C9_StaleFailureIsNotCharged ==
  [][\A a \in Accounts :
       (task[a].outcome = "none" /\ task'[a].outcome = "failedStale") =>
          /\ ~HasOrder(orders', a)
          /\ metrics'.DelayedOrderAlreadyExecuted = metrics.DelayedOrderAlreadyExecuted + 1
          /\ task'[a].order.executionFailures = task[a].order.executionFailures]_vars

\* C10 (as claimed): DelayedOrderExecuted counts the transactions submitted and
\* confirmed, one each, and nothing else.
C10_ExecutedCountsConfirmed ==
  metrics.DelayedOrderExecuted = Cardinality({a \in Accounts : task[a].confirmed > 0})

\* the overrides a transaction prepared from gasEstimation is to carry
HasGasOverrides(tx, gasEstimation) ==
  /\ tx.gasLimit = GasLimit(gasEstimation)
  /\ \E p \in GasPrices : tx.gasPrice = 2 * p

\* C11 (as claimed): every transaction a keeper has submitted was sent with
\* gasLimit = 1.2 x the gas estimated for it and gasPrice = 2 x the chain's gas price.
C11_EveryTxCarriesGasOverrides ==
  /\ \A a \in Accounts :
       task[a].pc = "wait" => HasGasOverrides(task[a].tx, task[a].gasEstimation)
  /\ lq.pc = "wait" => HasGasOverrides(lq.flagTx, lq.gasEstimation)
  /\ lp.pc = "waitFlag" => HasGasOverrides(lp.flagTx, lp.gasEstimation)
  /\ lp.pc = "waitLiquidate" => HasGasOverrides(lp.liquidateTx, lp.gasEstimation)

\* the accounts execute found ready
ReadyAccounts ==
  {snapshot[i].account : i \in
     {j \in 1..Len(snapshot) :
        \/ reads.currentRoundId >= snapshot[j].targetRoundId
        \/ reads.timestamp >= snapshot[j].executableAtTime}}

\* the task of account a ends in a failure in this step
Fails(a) == task[a].outcome = "none" /\ task'[a].outcome \in {"failed", "failedStale"}

\* C12: a step in which the executeOrder task of one account fails leaves every
\* other account's task and index entry as they were and the batches still to run
\* in place; and execute does not return before the task of every ready account
\* has been run.
C12_FailureIsIsolated ==
  [][/\ \A a \in Accounts :
          Fails(a) =>
             /\ \A b \in Accounts \ {a} :
                  /\ task'[b] = task[b]
                  /\ HasOrder(orders', b) = HasOrder(orders, b)
                  /\ GetOrder(orders', b) = GetOrder(orders, b)
             /\ batches' = batches
             /\ exPc' = exPc
     /\ (exPc \in {"batch", "delay"} /\ exPc' = "idle") =>
          \A b \in ReadyAccounts : task[b].pc = "done"]_vars

\* C12 witness: the first batch is over with one task failed and the other
\* executed, and the task of the next batch has started.
C12_Witness ==
  /\ exPc = "batch"
  /\ Len(batches) = 1
  /\ \E a, b, c \in Accounts :
       /\ task[a].outcome = "failed" /\ HasOrder(orders, a)
       /\ task[b].outcome = "executed"
       /\ InBatch(Head(batches), c) /\ task[c].pc = "wait"

\* the tasks in flight: started and not yet ended
InFlight == {a \in Accounts : task[a].pc \notin {"idle", "done"}}

\* C13: at most MAX_BATCH_SIZE tasks are in flight; a task in flight belongs to
\* the batch being run, and none is in flight during the pause; every ready
\* account is either started or in exactly one of the batches to come.
C13_BatchesRunOneAtATime ==
  LET later(k) == {batches[k][i] : i \in 1..Len(batches[k])}
      started == {a \in Accounts : task[a].pc # "idle"}
  IN /\ Cardinality(InFlight) <= MAX_BATCH_SIZE
     /\ \A a \in InFlight : exPc = "batch" /\ InBatch(Head(batches), a)
     /\ exPc \in {"batch", "delay"} =>
          /\ \A a \in ReadyAccounts :
               Cardinality({k \in 2..Len(batches) : a \in later(k)})
                 = (IF a \in started THEN 0 ELSE 1)
          /\ \A k \in 1..Len(batches) :
               /\ Len(batches[k]) <= MAX_BATCH_SIZE
               /\ Cardinality(later(k)) = Len(batches[k])
               /\ later(k) \subseteq ReadyAccounts
          /\ started \subseteq ReadyAccounts
          /\ \A a \in later(1) : a \in started

\* C13 witness: three accounts are ready, the first batch of two is over and the
\* task of the second batch is in flight.
C13_Witness ==
  /\ exPc = "batch"
  /\ Cardinality(ReadyAccounts) = 3
  /\ Len(batches) = 1
  /\ Cardinality(InFlight) = 1
  /\ Cardinality({a \in Accounts : task[a].pc = "done"}) = 2

\* the signers leased, with their holders
Leases ==
  {[holder |-> a, signer |-> task[a].signer] : a \in {b \in Accounts : task[b].signer # 0}}
  \cup (IF lq.signer # 0 THEN {[holder |-> "multicall", signer |-> lq.signer]} ELSE {})

\* C14: a task that is submitting or awaiting the confirmation of a transaction
\* holds a signer that is out of the pool, the transaction is sent from that
\* signer, and no two tasks hold the same signer.
C14_TxInsideTheLease ==
  /\ \A a \in Accounts :
       /\ task[a].pc \in {"submit", "wait"} =>
            task[a].signer \in Signers /\ task[a].signer \notin pool
       /\ task[a].pc = "wait" => task[a].tx.from = task[a].signer
  /\ lq.pc \in {"submit", "wait"} => lq.signer \in Signers /\ lq.signer \notin pool
  /\ lq.pc = "wait" => lq.flagTx.from = lq.signer
  /\ \A l1, l2 \in Leases : l1.signer = l2.signer => l1.holder = l2.holder

\* C14 witness: one executeOrder task awaits its confirmation while the other task
\* of its batch and LiquidationKeeper.execute wait for a signer.
C14_Witness ==
  /\ lq.pc = "signer"
  /\ \E a, b \in Accounts :
       /\ task[a].pc = "wait" /\ task[a].tx.from = task[a].signer
       /\ task[b].pc = "signer"

\* C15: each transaction the chain accepts from a key carries the nonce that
\* equals the number of transactions accepted from that key before it: the nonces
\* of a key run 0, 1, 2, ... without a gap or a repeat.
C15_NoncesGapFree ==
  [][\A s \in Signers :
       nonces'.accepted[s] # nonces.accepted[s] =>
          /\ nonces'.accepted[s] = nonces.accepted[s] + 1
          /\ \E h \in Holders :
               /\ nonces.lease[h] = nonces.accepted[s]
               /\ nonces'.lease[h] = nonces.lease[h] + 1
               /\ \A g \in Holders \ {h} : nonces'.lease[g] = nonces.lease[g]]_vars

\* C15 witness: the two tasks of one batch have each submitted a transaction from
\* the same key, the second with the nonce after the first's.
C15_Witness ==
  /\ exPc = "batch"
  /\ \E a, b \in Accounts, s \in Signers :
       /\ a # b
       /\ InBatch(Head(batches), a) /\ InBatch(Head(batches), b)
       /\ task[a].pc = "done" /\ task[a].sent = 1
       /\ task[b].pc = "wait" /\ task[b].signer = s
       /\ nonces.accepted[s] = 2 /\ nonces.lease[b] = 2
       /\ nonces.accepted[s] = nonces.remembered[s] + 1

\* C16: an account is a key of the positions index if and only if the last
\* PositionModified seen for it had non-zero margin and no PositionLiquidated or
\* PositionFlagged for it was seen afterwards.
C16_PositionsIffOpen ==
  \A a \in PositionAccounts : HasPosition(positions, a) <=> posSeen[a] = "open"

\* C16 witness: updateIndex has ended with one account indexed after its
\* PositionModified and another removed after having been opened.
C16_Witness ==
  /\ piLeft = 0
  /\ \E a, b \in PositionAccounts :
       /\ HasPosition(positions, a) /\ posSeen[a] = "open"
       /\ ~HasPosition(positions, b) /\ posSeen[b] = "closed"

\* C17: an indexed position has liqPrice = -1 only while no liquidationPrice read
\* has succeeded for it since the PositionModified that wrote its entry (none was
\* made, or the refresh failed); after a successful read liqPrice is not -1.
C17_UnknownLiqPriceMeansNotRefreshed ==
  \A i \in 1..Len(positions) :
     /\ positions[i].liqPrice = UnknownLiqPrice =>
          refreshed[positions[i].account] \in {"never", "failed"}
     /\ refreshed[positions[i].account] = "read" => positions[i].liqPrice >= 0

\* C17 witness: liquidatePosition has refreshed the liquidation price of one
\* indexed position (it is no longer -1) and failed to refresh that of another
\* (it is still -1).
C17_Witness ==
  /\ lp.pc = "done"
  /\ \E i, j \in 1..Len(positions) :
       /\ refreshed[positions[i].account] = "read"
       /\ positions[i].liqPrice = FormatUnits(99 * UNIT)
       /\ refreshed[positions[j].account] = "failed"
       /\ positions[j].liqPrice = UnknownLiqPrice

\* close ++ unknown ++ outdated over the open positions of the index
Candidates ==
  LET groups == liquidationGroups(SelectSeq(positions, LAMBDA p : Abs(p.size) > 0),
                                  assetPrice, blockTipTimestamp)
  IN AccountsOf(groups[1] \o groups[2] \o groups[3])

\* C18 (as claimed): the list execute works through is close ++ unknown ++ outdated
\* of liquidationGroups over the open positions, and while execute runs on a
\* non-empty list a candidate is in the hands of liquidatePosition.
C18_WalksCandidatesInOrder ==
  lq.pc # "idle" =>
     /\ lq.openPositions = Candidates
     /\ Candidates # <<>> =>
          /\ lp.pc # "idle"
          /\ \E k \in 1..Len(Candidates) : lp.account = Candidates[k]

\* C19 (as claimed): once the flagPosition transaction of execute is confirmed,
\* execute goes on to submit liquidatePosition with the same signer.
C19_FlagThenLiquidate ==
  [][(lq.pc = "wait" /\ lq'.pc # "wait" /\ lq'.outcome # "failed") =>
        /\ lq'.pc = "submitLiquidate"
        /\ lq'.signer = lq.signer]_vars

\* the accounts of openPositions whose dry-run call succeeded, in index order
DryRunSucceeded ==
  LET open == lq.openPositions
      ok(i) == lq.staticResultsArray[((i - 1) \div pageSize) + 1][((i - 1) % pageSize) + 1].success
      marked == SelectSeq([i \in 1..Len(open) |-> [account |-> open[i], at |-> i]],
                          LAMBDA c : ok(c.at))
  IN [k \in 1..Len(marked) |-> marked[k].account]

\* the dry run went page by page: pages of pageSize calls, the last one shorter
DryRunPaged ==
  LET results == lq.staticResultsArray
      n == Len(lq.openPositions)
  IN /\ Len(results) = (n + pageSize - 1) \div pageSize
     /\ \A k \in 1..Len(results) :
          Len(results[k]) = (IF k * pageSize <= n THEN pageSize ELSE n - (k - 1) * pageSize)

\* the transaction of execute is being prepared or awaited
LqHasCalls == lq.pc \in {"signer", "estimate", "gasPrice", "submit", "wait"}

\* C20 (as claimed): the aggregate3 transaction contains a flagPosition call for
\* each position whose dry-run call succeeded and for no position whose call failed.
C20_TxHasEverySuccess ==
  LqHasCalls =>
     /\ DryRunPaged
     /\ {lq.executeCalls[k] : k \in 1..Len(lq.executeCalls)}
          = {DryRunSucceeded[k] : k \in 1..Len(DryRunSucceeded)}

\* C20 (amended): the open positions are dry-run in pages of 20 and the aggregate3
\* transaction contains a flagPosition call for each of the first 20, in index
\* order, of the positions whose dry-run call succeeded and for no other position.
C20_TxHasFirstPageOfSuccesses ==
  LqHasCalls =>
     /\ DryRunPaged
     /\ lq.executeCalls = Slice(DryRunSucceeded, pageSize)

\* C20 witness: of 22 open positions one reverts in the dry run and 21 succeed;
\* the transaction with the first 20 of them is awaiting its confirmation.
C20_Witness ==
  /\ lq.pc = "wait"
  /\ Len(lq.openPositions) = pageSize + 2
  /\ Len(lq.staticResultsArray) = 2
  /\ Len(DryRunSucceeded) = pageSize + 1
  /\ Len(lq.executeCalls) = pageSize
  /\ lq.executeCalls[pageSize] = lq.openPositions[pageSize + 1]

\* the positions of a list, as a set
Members(list) == {list[i] : i \in 1..Len(list)}

\* the three lists liquidationGroups returned
Close == returned.groups[1]
Unknown == returned.groups[2]
Outdated == returned.groups[3]

\* C21: with assetPrice > 0, the three groups are pairwise disjoint and hold only
\* positions of the input; a position with liqPrice = -1 is in unknown and in no
\* other group; a position with a known liqPrice within 5% of assetPrice is in close
\* and in no other group.
C21_GroupsDisjoint ==
  (args.mode = "groups" /\ returned.pass = 1 /\ assetPrice > 0) =>
     /\ Members(Close) \cap Members(Unknown) = {}
     /\ Members(Close) \cap Members(Outdated) = {}
     /\ Members(Unknown) \cap Members(Outdated) = {}
     /\ Members(Close) \cup Members(Unknown) \cup Members(Outdated)
          \subseteq Members(positions)
     /\ \A p \in Members(positions) :
          /\ p.liqPrice = -1 =>
               p \in Members(Unknown) /\ p \notin Members(Close) \cup Members(Outdated)
          /\ (p.liqPrice # -1 /\ Abs(p.liqPrice - assetPrice) * 100 <= 5 * assetPrice) =>
               p \in Members(Close) /\ p \notin Members(Unknown) \cup Members(Outdated)

\* C21 witness: liquidationGroups returned three non-empty groups at a positive
\* asset price.
C21_Witness ==
  /\ args.mode = "groups" /\ returned.pass = 1 /\ assetPrice > 0
  /\ Close # <<>> /\ Unknown # <<>> /\ Outdated # <<>>
  /\ Len(positions) = 4

\* C22: close is ordered by ascending |liqPrice - assetPrice|, ties by descending
\* leverage; unknown is ordered by descending leverage.
C22_GroupsOrdered ==
  (args.mode = "groups" /\ returned.pass = 1) =>
     /\ \A i, j \in 1..Len(Close) :
          i < j =>
             LET di == Abs(Close[i].liqPrice - assetPrice)
                 dj == Abs(Close[j].liqPrice - assetPrice)
             IN di < dj \/ (di = dj /\ Close[i].leverage >= Close[j].leverage)
     /\ \A i, j \in 1..Len(Unknown) : i < j => Unknown[i].leverage >= Unknown[j].leverage

\* C22 witness: close holds a nearer position of lower leverage before a farther
\* one of higher leverage that came first in the input, and unknown holds two
\* positions in the reverse of their input order.
C22_Witness ==
  /\ args.mode = "groups" /\ returned.pass = 1
  /\ Len(Close) = 2 /\ Len(Unknown) = 2
  /\ Close[1].liqPrice = 99 /\ Close[1].leverage = 1
  /\ Close[2].liqPrice = 96 /\ Close[2].leverage = 2
  /\ positions[1] = Close[2]
  /\ Unknown[1].leverage > Unknown[2].leverage
  /\ \E i, j \in 1..Len(positions) :
       i < j /\ positions[i] = Unknown[2] /\ positions[j] = Unknown[1]

\* the positions with a known liqPrice farther than 5% from assetPrice and a
\* liqPriceUpdatedTimestamp older than the recency cutoff
Eligible ==
  {p \in Members(positions) :
     /\ p.liqPrice # -1
     /\ Abs(p.liqPrice - assetPrice) * 100 > 5 * assetPrice
     /\ p.liqPriceUpdatedTimestamp < blockTipTimestamp - 6 * 3600}

\* C28: outdated holds at most maxFarPricesToUpdate (1) positions, all of them
\* eligible, as many as there are eligible ones up to that cap, and none more
\* recently updated than an eligible position left out.
C28_OutdatedOldestFirst ==
  (args.mode = "groups" /\ returned.pass = 1) =>
     /\ Len(Outdated) <= 1
     /\ Members(Outdated) \subseteq Eligible
     /\ Len(Outdated) = (IF Cardinality(Eligible) < 1 THEN Cardinality(Eligible) ELSE 1)
     /\ \A o \in Members(Outdated), e \in Eligible \ Members(Outdated) :
          o.liqPriceUpdatedTimestamp <= e.liqPriceUpdatedTimestamp

\* C28 witness: of two eligible positions, the later in the input was updated
\* earlier and is the one returned; a recently updated far position is left out.
C28_Witness ==
  /\ args.mode = "groups" /\ returned.pass = 1
  /\ Cardinality(Eligible) = 2
  /\ Len(Outdated) = 1
  /\ \E i, j, k \in 1..Len(positions) :
       /\ i < j
       /\ positions[j] = Outdated[1]
       /\ positions[i] \in Eligible
       /\ positions[i].liqPriceUpdatedTimestamp > positions[j].liqPriceUpdatedTimestamp
       /\ positions[k].liqPrice = 50 /\ positions[k] \notin Eligible

\* the funding events of the replayed sequence that carry a timestamp
FundingAt == {i \in 1..Len(args.events) :
                args.events[i].event = "FundingRecomputed" /\ args.events[i].hasArgs}

RECURSIVE FetchedBefore(_, _)
FetchedBefore(i, b) ==
  IF i <= 1 THEN NoBlock
  ELSE LET prev == FetchedBefore(i - 1, b)
           e == args.events[i - 1]
       IN IF prev # NoBlock THEN prev
          ELSE IF e.event = "DelayedOrderSubmitted" /\ e.hasArgs /\ ~e.isOffchain
                  /\ e.intentionTime = NoTime /\ e.blockNumber = b
               THEN e.block
          ELSE NoBlock

\* C30: in the DelayedOrdersKeeper's updateIndex, a DelayedOrderSubmitted event
\* without intentionTime is indexed with the timestamp of its block, a block
\* number is fetched successfully at most once per batch, and when the fetch
\* fails the order is indexed with intentionTime 0 and the loop goes on.
C30_BlockFetchedOncePerBatch ==
  [][(args.mode = "orders" /\ uiPc = "indexing" /\ uiLeft' = uiLeft - 1) =>
       LET i == Len(args.events) - uiLeft + 1
           evt == args.events[i]
           before == FetchedBefore(i, evt.blockNumber)
       IN /\ \A b \in BlockNumbers : returned'.fetches[b] <= 1
          /\ uiPc' = (IF uiLeft = 1 THEN "idle" ELSE "indexing")
          /\ (evt.event = "DelayedOrderSubmitted" /\ evt.hasArgs /\ ~evt.isOffchain
              /\ evt.intentionTime = NoTime) =>
                /\ HasOrder(orders', evt.account)
                /\ GetOrder(orders', evt.account).intentionTime =
                     (IF before # NoBlock THEN before
                      ELSE IF evt.block # NoBlock THEN evt.block
                      ELSE 0)
                /\ GetOrder(orders', evt.account).executionFailures = 0]_vars

\* C30 witness: the fetch of block 7 failed for the first event, whose order is
\* indexed with intentionTime 0; it succeeded for the second; the third event, of
\* the same block, took the cached timestamp without a fetch.
C30_Witness ==
  /\ args.mode = "orders" /\ returned.pass = 1
  /\ Len(args.events) = 3
  /\ \A i \in 1..3 : /\ args.events[i].event = "DelayedOrderSubmitted"
                     /\ args.events[i].intentionTime = NoTime
                     /\ args.events[i].blockNumber = 7
  /\ args.events[1].block = NoBlock /\ args.events[1].account = "0xA"
  /\ args.events[2].block # NoBlock /\ args.events[2].account = "0xB"
  /\ args.events[3].block = NoBlock /\ args.events[3].account = "0xB"
  /\ returned.fetches[7] = 1
  /\ GetOrder(orders, "0xA").intentionTime = 0
  /\ GetOrder(orders, "0xB").intentionTime = args.events[2].block

\* the accounts a list of positions holds
AccountSet(ps) == {ps[i].account : i \in 1..Len(ps)}

\* C24: after hydrateIndex(snapshot, block), an account of the snapshot that the
\* index held before keeps the liqPrice and liqPriceUpdatedTimestamp the index
\* held, and an account of the snapshot that the index did not hold is indexed
\* with the snapshot's values.
C24_HydrateKeepsInMemoryValues ==
  (args.mode = "merge" /\ returned.pass = 1) =>
     \A i \in 1..Len(args.snapshot) :
        LET s == args.snapshot[i]
            now == GetPosition(positions, s.account)
            was == GetPosition(returned.before, s.account)
        IN /\ HasPosition(positions, s.account)
           /\ IF HasPosition(returned.before, s.account)
              THEN /\ now.liqPrice = was.liqPrice
                   /\ now.liqPriceUpdatedTimestamp = was.liqPriceUpdatedTimestamp
              ELSE now = s

\* C24 witness: the index held 0xA with a liquidation price read; the snapshot
\* holds 0xA and 0xB with another liquidation price; after hydrateIndex 0xA has
\* the price the index held and 0xB the snapshot's.
C24_Witness ==
  /\ args.mode = "merge" /\ returned.pass = 1
  /\ AccountSet(returned.before) = {"0xA"}
  /\ GetPosition(returned.before, "0xA").liqPrice = 99
  /\ Len(args.snapshot) = 2
  /\ \A i \in 1..2 : args.snapshot[i].liqPrice = 104
  /\ GetPosition(positions, "0xA").liqPrice = 99
  /\ GetPosition(positions, "0xB").liqPrice = 104
  /\ GetPosition(positions, "0xB").liqPriceUpdatedTimestamp = 45000

\* the index after the events have gone through updateIndex, starting from ps
RECURSIVE ReplayAll(_, _)
ReplayAll(ps, events) ==
  IF events = <<>> THEN ps
  ELSE ReplayAll(IndexPositionEvent(ps, Head(events)), Tail(events))

\* a's position was flagged and not liquidated when the snapshot was taken: the
\* chain holds it open and updateIndex has deleted its entry
FlaggedAtSnapshot(a) ==
  /\ ChainOpen(args.history, a)
  /\ args.history[LastRewrite(args.history, a)].event = "PositionFlagged"

\* a held margin and no position when the snapshot was taken: the chain has no
\* open position for it and updateIndex has written its entry
MarginOnlyAtSnapshot(a) ==
  /\ LastRewrite(args.history, a) # 0
  /\ args.history[LastRewrite(args.history, a)].event = "PositionModified"
  /\ args.history[LastRewrite(args.history, a)].margin # 0
  /\ args.history[LastRewrite(args.history, a)].size = 0

\* an event of the blocks after the snapshot's writes or deletes a's entry
RewrittenLater(a) ==
  \E i \in 1..Len(args.later) : RewritesPosition(args.later[i], a)

\* C25 (as stated): hydrating an empty index from the snapshot of the chain at
\* block B and replaying the events of the blocks after B through updateIndex
\* indexes the same accounts, with the same size and leverage, as replaying the
\* whole history through updateIndex.
C25_HydrateThenReplayIsFullReplay ==
  (args.mode = "resume" /\ returned.pass = 2 /\ piLeft = 0) =>
     LET full == ReplayAll(<<>>, args.history \o args.later)
     IN /\ AccountSet(positions) = AccountSet(full)
        /\ \A a \in AccountSet(full) :
             /\ GetPosition(positions, a).size = GetPosition(full, a).size
             /\ GetPosition(positions, a).leverage = GetPosition(full, a).leverage

\* C25 (amended): hydrating an empty index from the snapshot of the chain at block
\* B (its open positions) and replaying the events of the blocks after B through
\* updateIndex indexes the same accounts, with the same size and leverage, as
\* replaying the whole history through updateIndex, except for the accounts that
\* no event after B writes or deletes and that at B were flagged and not
\* liquidated (indexed after hydration, not by the full replay) or held margin
\* with size 0 (indexed with size 0 by the full replay, not after hydration).
C25_HydrateThenReplayIsFullReplayExcept ==
  (args.mode = "resume" /\ returned.pass = 2 /\ piLeft = 0) =>
     LET full == ReplayAll(<<>>, args.history \o args.later)
     IN \A a \in EventAccounts :
          IF ~RewrittenLater(a) /\ FlaggedAtSnapshot(a)
          THEN HasPosition(positions, a) /\ ~HasPosition(full, a)
          ELSE IF ~RewrittenLater(a) /\ MarginOnlyAtSnapshot(a)
          THEN /\ ~HasPosition(positions, a)
               /\ HasPosition(full, a) /\ GetPosition(full, a).size = 0
          ELSE /\ HasPosition(positions, a) <=> HasPosition(full, a)
               /\ HasPosition(full, a) =>
                    /\ GetPosition(positions, a).size = GetPosition(full, a).size
                    /\ GetPosition(positions, a).leverage = GetPosition(full, a).leverage

\* C25 witness: 0xB was opened and flagged before the snapshot, which holds it;
\* the event replayed after it opens 0xA; the index ends with 0xA as the full
\* replay has it and with 0xB as in the snapshot, which the full replay lacks.
C25_Witness ==
  /\ args.mode = "resume" /\ returned.pass = 2 /\ piLeft = 0
  /\ Len(args.history) = 2 /\ Len(args.later) = 1
  /\ FlaggedAtSnapshot("0xB") /\ ~RewrittenLater("0xB")
  /\ AccountSet(args.snapshot) = {"0xB"}
  /\ RewrittenLater("0xA")
  /\ AccountSet(positions) = {"0xA", "0xB"}
  /\ GetPosition(positions, "0xA").size = -20
  /\ GetPosition(positions, "0xA").leverage = 10
  /\ GetPosition(positions, "0xB") = GetPosition(args.snapshot, "0xB")
  /\ AccountSet(ReplayAll(<<>>, args.history \o args.later)) = {"0xA"}

\* a step ends DelayedOrdersKeeper.execute while it awaits its reads, before any
\* executeOrder task exists
EndsBeforeTasks == exPc = "reading" /\ exPc' \notin {"reading", "batch"}

\* a step ends LiquidationKeeper.execute before its withSigner callback runs
LqEndsBeforeCallback ==
  lq.pc \in {"dryrun", "signer"} /\ lq'.pc \notin {"dryrun", "signer", "estimate"}

\* C26: neither execute propagates an exception: a call that is over has returned
\* (a failed executeOrder task is done and its batch goes on; a failed
\* LiquidationKeeper.execute is back at idle), and a call that ends before any
\* per-item work started leaves the index as it was and submits no transaction.
C26_ExecuteNeverThrows ==
  [][/\ exPc' \in {"idle", "reading", "batch", "delay"}
     /\ lq'.outcome \in {"none", "nothingOpen", "nothingAccepted", "failed",
                         "confirmed"}
     /\ lq'.outcome # "none" => lq'.pc = "idle"
     /\ \A a \in Accounts :
          (task[a].pc \notin {"idle", "done"} /\ Fails(a)) =>
             task'[a].pc = "done" /\ exPc' = "batch"
     /\ EndsBeforeTasks =>
          /\ exPc' = "idle"
          /\ orders' = orders
          /\ nonces' = nonces
          /\ pool' = pool
     /\ LqEndsBeforeCallback =>
          /\ lq'.pc = "idle"
          /\ positions' = positions
          /\ nonces' = nonces
          /\ pool' = pool]_vars

\* C26 witness: LiquidationKeeper.execute has failed before it held a signer,
\* with the position still indexed and no transaction accepted, while an
\* executeOrder task of the running batch has failed and another is still at work.
C26_Witness ==
  /\ lq.pc = "idle" /\ lq.outcome = "failed"
  /\ positions = <<OpenPosition("0xA")>>
  /\ \A s \in Signers : nonces.accepted[s] = 0 /\ nonces.remembered[s] = 0
  /\ exPc = "batch"
  /\ \E a, b \in Accounts :
       /\ task[a].pc = "done" /\ task[a].outcome = "failed"
       /\ task[b].pc \notin {"idle", "done"}

\* C27: a failed executeOrder attempt for an indexed order leaves the entry in
\* the index with executionFailures one higher and counts KeeperError once; no
\* other step changes the executionFailures of an entry that stays, except an
\* updateIndex step that replaces it by a newly submitted order.
C27_FailuresCountedOnce ==
  [][\A a \in Accounts :
       /\ (Fails(a) /\ HasOrder(orders, a)) =>
            /\ HasOrder(orders', a)
            /\ GetOrder(orders', a).executionFailures =
                 GetOrder(orders, a).executionFailures + 1
            /\ metrics'.KeeperError = metrics.KeeperError + 1
       /\ (~Fails(a) /\ HasOrder(orders, a) /\ HasOrder(orders', a)) =>
            \/ GetOrder(orders', a).executionFailures =
                 GetOrder(orders, a).executionFailures
            \/ /\ uiPc = "indexing"
               /\ seen'[a] = "submitted"
               /\ GetOrder(orders', a).executionFailures = 0]_vars

\* C27 witness: an order that failed in an earlier execute has just failed again:
\* its entry is still indexed, with two failures, and this execute has counted
\* one KeeperError.
C27_Witness ==
  \E a \in Accounts :
     /\ HasOrder(orders, a)
     /\ GetOrder(orders, a).executionFailures = 2
     /\ task[a].pc = "done" /\ task[a].outcome = "failed"
     /\ metrics.KeeperError = 1

\* C29: when liquidatePosition has found the position neither liquidatable nor
\* flagged and liquidationPrice(account) resolves, the position's liqPrice
\* becomes the price read (in whole units) and its liqPriceUpdatedTimestamp the
\* current blockTipTimestamp; its other fields and every other position stay as
\* they were; no signer is asked for or leased and no transaction is sent.
C29_RefreshOnlyTouchesThePosition ==
  [][(lp.pc = "liquidationPrice" /\ lp'.outcome = "refreshed") =>
       /\ ~lp.canLiquidateOrder /\ ~lp.isFlaggedOrder
       /\ Len(positions') = Len(positions)
       /\ \A i \in 1..Len(positions) :
            IF positions[i].account = lp.account
            THEN /\ \E price \in LiqPriceReads :
                      positions'[i].liqPrice * UNIT = price
                 /\ positions'[i].liqPriceUpdatedTimestamp = blockTipTimestamp
                 /\ positions'[i] = [positions[i] EXCEPT
                                       !.liqPrice = positions'[i].liqPrice,
                                       !.liqPriceUpdatedTimestamp = blockTipTimestamp]
            ELSE positions'[i] = positions[i]
       /\ lp.signer = 0 /\ lp.flagTx = NoTx /\ lp.liquidateTx = NoTx
       /\ lp'.signer = 0 /\ lp'.flagTx = NoTx /\ lp'.liquidateTx = NoTx
       /\ pool' = pool /\ pool = Signers
       /\ waiters' = waiters
       /\ nonces' = nonces
       /\ blockTipTimestamp' = blockTipTimestamp]_vars

\* C29 witness: the call for 0xA ended in a refresh: 0xA holds the price read and
\* the tip's timestamp, 0xB is still as updateIndex wrote it, and every signer is
\* in the pool.
C29_Witness ==
  /\ lp.pc = "done" /\ lp.outcome = "refreshed" /\ lp.account = "0xA"
  /\ blockTipTimestamp # 0
  /\ HasPosition(positions, "0xA") /\ HasPosition(positions, "0xB")
  /\ GetPosition(positions, "0xA").liqPrice = 99
  /\ GetPosition(positions, "0xA").liqPriceUpdatedTimestamp = blockTipTimestamp
  /\ GetPosition(positions, "0xB").liqPrice = -1
  /\ GetPosition(positions, "0xB").liqPriceUpdatedTimestamp = 0
  /\ pool = Signers

\* the executeOrder task of a ends in this step, after a DelayedOrderSubmitted
\* for a was indexed while it was awaiting
EndsAfterResubmission(a) ==
  /\ task[a].pc \notin {"idle", "done"}
  /\ task'[a].pc = "done"
  /\ task[a].raced
  /\ seen[a] = "submitted"
  /\ HasOrder(orders, a)

\* C31 (as claimed): when a DelayedOrderSubmitted for an account was indexed while
\* its executeOrder task was awaiting, the newly indexed order is still in the
\* index, as indexed, once the task has finished, and a failure of the task is
\* charged to the order the task started with.
C31_NewOrderSurvivesTask ==
  [][\A a \in Accounts :
       EndsAfterResubmission(a) =>
          /\ HasOrder(orders', a)
          /\ GetOrder(orders', a) = GetOrder(orders, a)
          /\ Fails(a) => task'[a].order.executionFailures =
                           task[a].order.executionFailures + 1]_vars

\* C31, failure only: a task that fails after such a re-submission leaves the
\* newly indexed order as indexed and charges the order it started with.
C31_FailureSparesNewOrder ==
  [][\A a \in Accounts :
       (EndsAfterResubmission(a) /\ Fails(a)) =>
          /\ HasOrder(orders', a)
          /\ GetOrder(orders', a) = GetOrder(orders, a)
          /\ task'[a].order.executionFailures =
               task[a].order.executionFailures + 1]_vars

\* C32: an iteration of DelayedOrdersKeeper.updateIndex over an event without
\* args, or with args.isOffchain set, leaves the index as it was and fetches no
\* block.
C32_SkippedEventsChangeNothing ==
  [][(args.mode = "orders" /\ uiPc = "indexing" /\ uiLeft' = uiLeft - 1) =>
       LET evt == args.events[Len(args.events) - uiLeft + 1]
       IN (~evt.hasArgs \/ evt.isOffchain) =>
             /\ orders' = orders
             /\ returned'.fetches = returned.fetches]_vars

\* C32 witness: the sequence fed holds an off-chain DelayedOrderSubmitted for 0xA
\* and an off-chain DelayedOrderRemoved for 0xB and nothing else for either;
\* after the pass 0xA is not indexed and the order of 0xB, indexed before, is
\* still there with the failure it had.
C32_Witness ==
  /\ args.mode = "orders" /\ returned.pass = 1
  /\ \E i, j \in 1..Len(args.events) :
       /\ args.events[i].event = "DelayedOrderSubmitted"
       /\ args.events[i].isOffchain /\ args.events[i].account = "0xA"
       /\ args.events[j].event = "DelayedOrderRemoved"
       /\ args.events[j].isOffchain /\ args.events[j].account = "0xB"
  /\ \A i \in 1..Len(args.events) : args.events[i].hasArgs /\ args.events[i].isOffchain
  /\ ~HasOrder(orders, "0xA")
  /\ HasOrder(orders, "0xB")
  /\ GetOrder(orders, "0xB").executionFailures = 1

\* C33: after hydrateIndex(snapshot, block) the indexed accounts are exactly the
\* accounts of the snapshot, once each, and blockTipTimestamp is block.timestamp.
C33_HydrateIndexesTheSnapshot ==
  (args.mode = "merge" /\ returned.pass = 1) =>
     /\ AccountSet(positions) = AccountSet(args.snapshot)
     /\ Len(positions) = Cardinality(AccountSet(args.snapshot))
     /\ blockTipTimestamp = args.block

\* C33 witness: the index held 0xA and 0xB and the snapshot holds 0xB alone:
\* after hydrateIndex only 0xB is indexed, and the tip has moved to the block's
\* timestamp.
C33_Witness ==
  /\ args.mode = "merge" /\ returned.pass = 1
  /\ AccountSet(returned.before) = {"0xA", "0xB"}
  /\ AccountSet(args.snapshot) = {"0xB"}
  /\ AccountSet(positions) = {"0xB"}
  /\ blockTipTimestamp = 45000

\* a step of LiquidationKeeper.execute: its locals change
LqExecuteMoves == lq' # lq

\* C34: no step of LiquidationKeeper.execute changes the positions index; an
\* account leaves the index only in an updateIndex step whose event closes it;
\* execute called with no position of non-zero size returns at once, a dry run
\* is followed by the request for a signer only when some call succeeded, and an
\* execute that ends either way has asked for no signer and sent nothing.
C34_ExecuteLeavesTheIndexAlone ==
  [][/\ LqExecuteMoves => positions' = positions
     /\ \A a \in AccountSet(positions) \ AccountSet(positions') :
          piLeft' = piLeft - 1 /\ posSeen'[a] = "closed"
     /\ AccountSet(positions') \ AccountSet(positions) # {} => piLeft' = piLeft - 1
     /\ (LqExecuteMoves /\ lq.pc = "idle"
         /\ \A i \in 1..Len(positions) : positions[i].size = 0) =>
           lq'.pc = "idle" /\ lq'.outcome = "nothingOpen"
     /\ (lq.pc = "dryrun" /\ lq'.pc = "signer") =>
           /\ lq'.successfulPositions # <<>>
           /\ \A i \in 1..Len(lq'.successfulPositions) :
                \E j \in 1..Len(positions) :
                   /\ positions[j].account = lq'.successfulPositions[i]
                   /\ positions[j].size # 0
     /\ (LqExecuteMoves /\ lq'.outcome \in {"nothingOpen", "nothingAccepted"}) =>
           /\ lq.pc \in {"idle", "dryrun"}
           /\ lq.signer = 0 /\ lq.flagTx = NoTx
           /\ pool' = pool /\ pool = Signers
           /\ waiters' = waiters /\ waiters = <<>>
           /\ nonces' = nonces]_vars

\* C34 witness: with an open position and a position of size 0 indexed, execute
\* has returned after a dry run in which no call succeeded: both are still
\* indexed and every signer is in the pool.
C34_Witness ==
  /\ lq.pc = "idle" /\ lq.outcome = "nothingAccepted"
  /\ \E i, j \in 1..Len(positions) : positions[i].size # 0 /\ positions[j].size = 0
  /\ pool = Signers /\ waiters = <<>>
  /\ nonces = NoNonces

====
